---- MODULE Spec2Model ----
(***************************************************************************)
(* Refresh coordination core of the balance subsystem (BalanceManager).    *)
(* One step of the model is one event-loop task of the manager: a public   *)
(* call, a timer callback, the completion of an adapter call or of a store *)
(* write, together with the promise continuations it runs.                 *)
(*                                                                         *)
(* An optional value (T | undefined) is a sequence of length at most one:  *)
(* << >> is undefined and <<v>> is the value v.                            *)
(***************************************************************************)
EXTENDS Integers, Sequences, FiniteSets, TLC

VARIABLES
    now,                \* Date.now()
    phase,              \* "constructed" | "running" | "disposed"
    endpoints,          \* configStore.endpoints, by provider name
    throttleWindowMs,   \* configStore.balanceThrottleWindowMs
    refreshIntervalMs,  \* configStore.balanceRefreshIntervalMs
    states,             \* BalanceManager.states
    configSignatures,   \* BalanceManager.configSignatures
    refreshInFlight,    \* BalanceManager.refreshInFlight (the promise's call id)
    trailingTimers,     \* BalanceManager.trailingTimers (due time of the timeout)
    periodicTimer,      \* BalanceManager.periodicTimer ([interval, dueAt])
    calls,              \* adapter calls awaiting their result (suspended doRefresh)
    waiters,            \* pending promises of forceRefresh / forceRefreshAll
    persistWriting,     \* the saveState whose globalState.update is in progress
    persistQueued,      \* saveState calls chained behind it on persistChain
    globalState,        \* extensionContext.globalState.get(STATE_KEY)
    lastNonForcedAt,    \* history: start of the latest adapter call with a reason other than manual, and its distance (gap) from the one before
    burst,              \* history: the current run of throttled post-request triggers
    owed,               \* history: "owed" once a post-request trigger arrived during a refresh,
                        \*          "served" once a refresh started after it, else "none"
    requestCallAt,      \* history: when a non-manual requestRefresh last started an adapter call,
                        \*          and whether the provider's state was kept since
    fired,              \* provider names onDidUpdate delivered to listeners during the last step
    seen,               \* what getProviderState gave the listeners of the last onDidUpdate
                        \* of that step, by provider
    orphanChains,       \* persistChain promises dropped by disposeRuntime whose saveState calls still run
    note,               \* history: what the last step was, where a property refers to it
                        \*          ("resolved" / "rejected": how the promise of the call
                        \*          that ended was settled)
    dataSig,            \* history: config signature under which the state's snapshot/error was obtained
    storeSig,           \* history: the same for the entries of globalState
    loaded,             \* history: states right after the last loadState
    events              \* history: number of external events so far

vars == << now, phase, endpoints, throttleWindowMs, refreshIntervalMs, states,
           configSignatures, refreshInFlight, trailingTimers, periodicTimer,
           calls, waiters, persistWriting, persistQueued, globalState,
           lastNonForcedAt, burst, owed, requestCallAt, note, dataSig, storeSig,
           loaded, events, fired, seen, orphanChains >>

\* ---------------------------------------------------------------- bounds
MaxTime == 2
MaxEvents == 3
MaxPersistQueue == 2
MaxWaiters == 1
ThrottleWindow == 2
RefreshInterval == 2

\* ------------------------------------------------------ program constants
STATE_VERSION == 1

Providers == {"acme", "beta"}

Undefined == << >>
Some(v) == << v >>
Defined(x) == x # << >>
Val(x) == x[1]

Max(a, b) == IF a >= b THEN a ELSE b

\* ------------------------------------------------------- provider configs
\* ProviderConfig, reduced to the fields the manager reads plus one field
\* (models) that it does not.
CfgA == [type |-> "openai", baseUrl |-> "https://a", auth |-> "api-key",
         balanceProvider |-> Some([method |-> "newapi"]), models |-> 1]
CfgACosmetic == [CfgA EXCEPT !.models = 2]
CfgB == [CfgA EXCEPT !.baseUrl = "https://b"]
CfgNone == [CfgA EXCEPT !.balanceProvider = Some([method |-> "none"])]
CfgUnsupported == [CfgA EXCEPT !.balanceProvider = Some([method |-> "unsupported"])]

ProviderConfigs == {CfgA, CfgACosmetic, CfgB, CfgNone, CfgUnsupported}

RefreshReasons == {"periodic", "post-request-immediate", "post-request-trailing",
                   "manual", "ui"}

hasConfiguredBalanceProvider(provider) ==
    /\ Defined(provider.balanceProvider)
    /\ Val(provider.balanceProvider).method # "none"

\* configStore.getProvider(name)
getProvider(eps, p) == eps[p]

IsConfigured(eps, p) ==
    /\ Defined(getProvider(eps, p))
    /\ hasConfiguredBalanceProvider(Val(getProvider(eps, p)))

\* stableStringify is injective on the projected fields.
getProviderConfigSignature(provider) ==
    [type |-> provider.type, baseUrl |-> provider.baseUrl,
     auth |-> provider.auth, balanceProvider |-> provider.balanceProvider]

\* createBalanceProvider yields no adapter for a method it does not know.
createProvider(provider) ==
    IF ~Defined(provider.balanceProvider)
          \/ Val(provider.balanceProvider).method = "none"
    THEN Undefined
    ELSE IF Val(provider.balanceProvider).method = "unsupported"
         THEN Undefined
         ELSE Some(Val(provider.balanceProvider).method)

\* ------------------------------------------------------------ state model
NewState ==
    [isRefreshing |-> FALSE, snapshot |-> Undefined, lastError |-> Undefined,
     lastAttemptAt |-> Undefined, lastRefreshAt |-> Undefined,
     pendingTrailing |-> FALSE, lastRequestEndAt |-> Undefined]

\* BalanceSnapshot as an adapter builds it.
MkSnapshot(withDisplay, t) ==
    [summary |-> "Balance: 10", details |-> << "Balance: 10" >>, updatedAt |-> t,
     modelDisplay |-> IF withDisplay THEN Some("amount") ELSE Undefined]

\* What an adapter call can end with: a BalanceRefreshResult or an exception.
AdapterResults(t) ==
    { [throws |-> Undefined, success |-> TRUE,
       snapshot |-> Some(MkSnapshot(FALSE, t)), error |-> Undefined],
      [throws |-> Undefined, success |-> TRUE,
       snapshot |-> Some(MkSnapshot(TRUE, t)), error |-> Undefined],
      [throws |-> Undefined, success |-> TRUE,
       snapshot |-> Undefined, error |-> Undefined],
      [throws |-> Undefined, success |-> FALSE,
       snapshot |-> Undefined, error |-> Some("quota exceeded")],
      [throws |-> Some("network error"), success |-> FALSE,
       snapshot |-> Undefined, error |-> Undefined] }

\* no throttle window
isWithinThrottleWindowNever(state, t, w) == FALSE

isWithinThrottleWindow(state, t, w) ==
    /\ Defined(state.lastAttemptAt)
    /\ t - Val(state.lastAttemptAt) < w

\* ------------------------------------------------- the manager's methods
\* The methods are operators from a context m to the context they leave.  m
\* holds the manager's maps, the configuration it reads (eps, w, interval), the number
\* of queuePersistState calls made so far in this task (persistReq), and the
\* history fields.
NoneSeen == [p \in Providers |-> Undefined]

Context ==
    [eps |-> endpoints, w |-> throttleWindowMs, interval |-> refreshIntervalMs,
     states |-> states, sigs |-> configSignatures, inFlight |-> refreshInFlight,
     timers |-> trailingTimers, calls |-> calls, persistReq |-> 0, retired |-> {},
     lastNonForcedAt |-> lastNonForcedAt, burst |-> burst, owed |-> owed,
     requestCallAt |-> requestCallAt, note |-> "", dataSig |-> dataSig,
     fired |-> {}, seen |-> NoneSeen]

\* a fire that skips the notification for the start of an attempt
fireUnlessRefreshing(m, p) ==
    IF Defined(m.states[p]) /\ Val(m.states[p]).isRefreshing THEN m
    ELSE [m EXCEPT !.fired = @ \cup {p}, !.seen[p] = Some(m.states[p])]

\* onDidUpdateEmitter.fire(p): listeners run at once and read the state
fire(m, p) == [m EXCEPT !.fired = @ \cup {p}, !.seen[p] = Some(m.states[p])]

\* burst[p].n: throttled post-request triggers coalesced since pendingTrailing
\* was last clear, with no other trigger for p since the first of them (2
\* stands for two or more; 0: no such run).  burst[p].calls: adapter calls
\* started for p since that first trigger (2: two or more).
NoBurst == [n |-> 0, calls |-> 0]
Min(a, b) == IF a <= b THEN a ELSE b

\* History only: a trigger other than a throttled post-request one touched p.
Disturb(m, p) == [m EXCEPT !.burst[p] = NoBurst]

queuePersistState(m) == [m EXCEPT !.persistReq = @ + 1]

ensureState(m, p) ==
    IF Defined(m.states[p]) THEN m ELSE [m EXCEPT !.states[p] = Some(NewState)]

\* clearProviderState that leaves the trailing timer running
clearProviderStateKeepTimer(m, p) ==
    queuePersistState(
        fire([m EXCEPT !.states[p] = Undefined,
                  !.sigs[p] = Undefined,
                  !.calls = { IF c.provider = p THEN [c EXCEPT !.attached = FALSE]
                              ELSE c : c \in @ },
                  !.lastNonForcedAt[p] = Undefined,
                  !.burst[p] = NoBurst,
                  !.owed[p] = "none",
                  !.requestCallAt[p] = IF Defined(@) THEN Some([Val(@) EXCEPT !.kept = FALSE])
                                       ELSE @,
                  !.dataSig[p] = Undefined], p))

clearProviderState(m, p) ==
    queuePersistState(
        fire([m EXCEPT !.states[p] = Undefined,
                  !.sigs[p] = Undefined,
                  !.timers[p] = Undefined,
                  \* a suspended doRefresh keeps the state object it captured
                  !.calls = { IF c.provider = p THEN [c EXCEPT !.attached = FALSE]
                              ELSE c : c \in @ },
                  !.lastNonForcedAt[p] = Undefined,
                  !.burst[p] = NoBurst,
                  !.owed[p] = "none",
                  !.requestCallAt[p] = IF Defined(@) THEN Some([Val(@) EXCEPT !.kept = FALSE])
                                       ELSE @,
                  !.dataSig[p] = Undefined], p))

\* scheduleTrailingTimer that leaves a timer already set as it is
scheduleTrailingTimerKeepEarlier(m, p, dueAt) ==
    IF Defined(m.timers[p]) THEN m
    ELSE [m EXCEPT !.timers[p] = Some(Max(dueAt, now))]

\* scheduleTrailingTimer over one timer shared by all providers
scheduleTrailingTimerShared(m, p, dueAt) ==
    [m EXCEPT !.timers = [q \in Providers |->
                            IF q = p THEN Some(Max(dueAt, now)) ELSE Undefined]]

\* setTimeout(..., Math.max(0, dueAt - Date.now())), replacing the provider's timer
scheduleTrailingTimer(m, p, dueAt) ==
    [m EXCEPT !.timers[p] = Some(Max(dueAt, now))]

\* A fresh name for a promise: not that of a pending call, nor of one that
\* ended in this task (retired).
NewCallId(m) ==
    CHOOSE i \in 1..(Cardinality(m.calls) + Cardinality(m.retired) + 1) :
        /\ i \notin m.retired
        /\ \A c \in m.calls : c.id # i

\* doRefresh up to its first await; with no adapter it runs to its end.
doRefresh(m, p, provider, reason) ==
    LET adapter == createProvider(provider)
        m1 == ensureState(m, p)
        m2 == queuePersistState(
                fire([m1 EXCEPT !.states[p] = Some([Val(@) EXCEPT
                                                 !.isRefreshing = TRUE,
                                                 !.lastAttemptAt = Some(now)]),
                           !.owed[p] = IF @ = "owed" THEN "served" ELSE @], p))
    IN  IF ~Defined(adapter)
        THEN queuePersistState(fire(
                [m2 EXCEPT !.states[p] = Some([Val(@) EXCEPT
                                !.isRefreshing = FALSE,
                                !.lastError = Some("Balance provider is not available.")]),
                           !.dataSig[p] = Some(getProviderConfigSignature(provider))], p))
        ELSE [m2 EXCEPT !.calls = @ \cup {[id |-> NewCallId(m2), provider |-> p,
                                           config |-> provider, reason |-> reason,
                                           attached |-> TRUE]},
                        !.lastNonForcedAt[p] =
                            IF reason = "manual" THEN @
                            ELSE Some([at |-> now,
                                       gap |-> IF Defined(@) THEN Some(now - Val(@).at)
                                               ELSE Undefined]),
                        !.requestCallAt[p] = IF m.note = "request"
                                             THEN Some([at |-> now, kept |-> TRUE]) ELSE @,
                        !.burst[p] = IF @.n > 0
                                     THEN [@ EXCEPT !.calls = Min(@ + 1, 2)]
                                     ELSE @]

RECURSIVE refreshProvider(_, _, _, _, _)
RECURSIVE scheduleTrailingAfterRefresh(_, _)
RECURSIVE flushTrailingRefresh(_, _)

\* refreshProvider without the look-up of refreshInFlight
refreshProviderNoJoin(m, p, provider, reason, force) ==
    IF ~hasConfiguredBalanceProvider(provider) THEN m
    ELSE LET m1 == ensureState(m, p)
         IN  IF ~force /\ isWithinThrottleWindow(Val(m1.states[p]), now, m1.w)
             THEN m1
             ELSE LET m2 == doRefresh(m1, p, provider, reason)
                      started == m2.calls \ m1.calls
                  IN  IF started # {}
                      THEN [m2 EXCEPT !.inFlight[p] =
                                Some((CHOOSE c \in started : TRUE).id)]
                      ELSE scheduleTrailingAfterRefresh(
                               [m2 EXCEPT !.inFlight[p] = Undefined], p)

refreshProvider(m, p, provider, reason, force) ==
    IF ~hasConfiguredBalanceProvider(provider) THEN m
    ELSE IF Defined(m.inFlight[p]) THEN m
    ELSE LET m1 == ensureState(m, p)
         IN  IF ~force /\ isWithinThrottleWindow(Val(m1.states[p]), now, m1.w)
             THEN m1
             ELSE LET m2 == doRefresh(m1, p, provider, reason)
                      started == m2.calls \ m1.calls
                  IN  IF started # {}
                      THEN [m2 EXCEPT !.inFlight[p] =
                                Some((CHOOSE c \in started : TRUE).id)]
                      ELSE \* doRefresh already returned: the finally callback runs
                           scheduleTrailingAfterRefresh(
                               [m2 EXCEPT !.inFlight[p] = Undefined], p)

\* flushTrailingRefresh that leaves pendingTrailing set
flushTrailingRefreshKeepPending(m, p) ==
    IF ~Defined(m.states[p]) \/ ~Val(m.states[p]).pendingTrailing THEN m
    ELSE IF Defined(m.inFlight[p]) THEN m
    ELSE IF ~IsConfigured(m.eps, p) THEN m
    ELSE refreshProvider(m, p, Val(getProvider(m.eps, p)), "post-request-trailing", TRUE)

\* flushTrailingRefresh that clears pendingTrailing and leaves lastRequestEndAt
flushTrailingRefreshKeepRequestEnd(m, p) ==
    IF ~Defined(m.states[p]) \/ ~Val(m.states[p]).pendingTrailing THEN m
    ELSE IF Defined(m.inFlight[p]) THEN m
    ELSE LET cleared == fire([m EXCEPT !.states[p] = Some([Val(@) EXCEPT
                                        !.pendingTrailing = FALSE])], p)
         IN  IF ~IsConfigured(m.eps, p)
             THEN cleared
             ELSE refreshProvider(cleared, p, Val(getProvider(m.eps, p)),
                                  "post-request-trailing", TRUE)

\* flushTrailingRefresh whose refresh is subject to the throttle window
flushTrailingRefreshThrottled(m, p) ==
    IF ~Defined(m.states[p]) \/ ~Val(m.states[p]).pendingTrailing THEN m
    ELSE IF Defined(m.inFlight[p]) THEN m
    ELSE LET cleared == fire([m EXCEPT !.states[p] = Some([Val(@) EXCEPT
                                        !.pendingTrailing = FALSE,
                                        !.lastRequestEndAt = Undefined])], p)
         IN  IF ~IsConfigured(m.eps, p)
             THEN cleared
             ELSE refreshProvider(cleared, p, Val(getProvider(m.eps, p)),
                                  "post-request-trailing", FALSE)

flushTrailingRefresh(m, p) ==
    IF ~Defined(m.states[p]) \/ ~Val(m.states[p]).pendingTrailing THEN m
    ELSE IF Defined(m.inFlight[p]) THEN m
    ELSE LET cleared == fire([m EXCEPT !.states[p] = Some([Val(@) EXCEPT
                                        !.pendingTrailing = FALSE,
                                        !.lastRequestEndAt = Undefined])], p)
         IN  IF ~IsConfigured(m.eps, p)
             THEN cleared
             ELSE refreshProvider(cleared, p, Val(getProvider(m.eps, p)),
                                  "post-request-trailing", TRUE)

\* a finally callback that does not look at pendingTrailing
scheduleTrailingAfterRefreshNever(m, p) == m

\* scheduleTrailingAfterRefresh that counts the window from the completion
scheduleTrailingAfterRefreshFromNow(m, p) ==
    IF ~Defined(m.states[p]) \/ ~Val(m.states[p]).pendingTrailing THEN m
    ELSE scheduleTrailingTimer(m, p, now + m.w)

\* scheduleTrailingAfterRefresh that does nothing once the due time has passed
scheduleTrailingAfterRefreshTimerOnly(m, p) ==
    IF ~Defined(m.states[p]) \/ ~Val(m.states[p]).pendingTrailing THEN m
    ELSE LET st == Val(m.states[p])
             dueAt == (IF Defined(st.lastRequestEndAt)
                       THEN Val(st.lastRequestEndAt) ELSE now) + m.w
         IN  IF dueAt <= now THEN m
             ELSE scheduleTrailingTimer(m, p, dueAt)

scheduleTrailingAfterRefresh(m, p) ==
    IF ~Defined(m.states[p]) \/ ~Val(m.states[p]).pendingTrailing THEN m
    ELSE LET st == Val(m.states[p])
             dueAt == (IF Defined(st.lastRequestEndAt)
                       THEN Val(st.lastRequestEndAt) ELSE now) + m.w
         IN  IF dueAt <= now
             THEN flushTrailingRefresh(m, p)
             ELSE scheduleTrailingTimer(m, p, dueAt)

scheduleRefresh(m, p, reason, allowTrailing, force) ==
    IF ~IsConfigured(m.eps, p)
    THEN clearProviderState(m, p)
    ELSE LET provider == Val(getProvider(m.eps, p))
         IN  IF force
             THEN refreshProvider(Disturb(m, p), p, provider, reason, TRUE)
             ELSE LET m1 == ensureState(m, p)
                      st == Val(m1.states[p])
                      hasInFlight == Defined(m1.inFlight[p])
                      withinThrottleWindow == isWithinThrottleWindow(st, now, m1.w)
                  IN  IF ~withinThrottleWindow /\ ~hasInFlight
                      THEN refreshProvider(Disturb(m1, p), p, provider, reason, FALSE)
                      ELSE IF ~allowTrailing
                      THEN [Disturb(m1, p) EXCEPT !.note = "suppressed"]
                      ELSE scheduleTrailingTimer(
                              fire([m1 EXCEPT !.states[p] = Some([st EXCEPT
                                              !.pendingTrailing = TRUE,
                                              !.lastRequestEndAt = Some(now)]),
                                         !.burst[p] =
                                              IF st.pendingTrailing /\ @.n > 0
                                              THEN [@ EXCEPT !.n = Min(@ + 1, 2)]
                                              ELSE IF st.pendingTrailing THEN @
                                              ELSE [n |-> 1, calls |-> 0],
                                         !.owed[p] = IF hasInFlight THEN "owed" ELSE @], p),
                              p, now + m1.w)

\* ------------------------------------------------------------ persistence
\* What globalState holds is JSON: a value read back is of unknown type.
JsonNumber(n) == [type |-> "number", num |-> n, str |-> ""]
JsonString(x) == [type |-> "string", num |-> 0, str |-> x]

JsonSnapshot(snap) ==
    [type |-> "object",
     summary |-> Some(JsonString(snap.summary)),
     details |-> [isArray |-> TRUE,
                  items |-> [i \in DOMAIN snap.details |-> JsonString(snap.details[i])]],
     updatedAt |-> Some(JsonNumber(snap.updatedAt)),
     modelDisplay |-> snap.modelDisplay]

\* JSON.stringify leaves out a field that is undefined
JsonOptNumber(x) == IF Defined(x) THEN Some(JsonNumber(Val(x))) ELSE Undefined
JsonOptString(x) == IF Defined(x) THEN Some(JsonString(Val(x))) ELSE Undefined
JsonOptSnapshot(x) == IF Defined(x) THEN Some(JsonSnapshot(Val(x))) ELSE Undefined

\* saveState that leaves lastError out of the entries
saveStateWithoutError(sts) ==
    LET hasData(p) ==
            /\ Defined(sts[p])
            /\ \/ Defined(Val(sts[p]).snapshot)
               \/ Defined(Val(sts[p]).lastError)
               \/ Defined(Val(sts[p]).lastAttemptAt)
               \/ Defined(Val(sts[p]).lastRefreshAt)
    IN  [version |-> STATE_VERSION,
         providersIsRecord |-> TRUE,
         providers |->
            [p \in {q \in Providers : hasData(q)} |->
                [isRecord |-> TRUE,
                 snapshot |-> JsonOptSnapshot(Val(sts[p]).snapshot),
                 lastError |-> Undefined,
                 lastAttemptAt |-> JsonOptNumber(Val(sts[p]).lastAttemptAt),
                 lastRefreshAt |-> JsonOptNumber(Val(sts[p]).lastRefreshAt)]]]

\* saveState: the envelope written by globalState.update
saveState(sts) ==
    LET hasData(p) ==
            /\ Defined(sts[p])
            /\ \/ Defined(Val(sts[p]).snapshot)
               \/ Defined(Val(sts[p]).lastError)
               \/ Defined(Val(sts[p]).lastAttemptAt)
               \/ Defined(Val(sts[p]).lastRefreshAt)
    IN  [version |-> STATE_VERSION,
         providersIsRecord |-> TRUE,
         providers |->
            [p \in {q \in Providers : hasData(q)} |->
                [isRecord |-> TRUE,
                 snapshot |-> JsonOptSnapshot(Val(sts[p]).snapshot),
                 lastError |-> JsonOptString(Val(sts[p]).lastError),
                 lastAttemptAt |-> JsonOptNumber(Val(sts[p]).lastAttemptAt),
                 lastRefreshAt |-> JsonOptNumber(Val(sts[p]).lastRefreshAt)]]]

toString(raw) ==
    IF Defined(raw) /\ Val(raw).type = "string" THEN Some(Val(raw).str) ELSE Undefined

toTimestamp(raw) ==
    IF Defined(raw) /\ Val(raw).type = "number" /\ Val(raw).num >= 0
    THEN Some(Val(raw).num) ELSE Undefined

toSnapshot(raw) ==
    IF ~Defined(raw) \/ Val(raw).type # "object" THEN Undefined
    ELSE LET summary == toString(Val(raw).summary)
             updatedAt == toTimestamp(Val(raw).updatedAt)
             detailsValue == Val(raw).details
             details == IF detailsValue.isArray
                        THEN SelectSeq(detailsValue.items,
                                       LAMBDA item : item.type = "string")
                        ELSE << >>
         IN  IF ~Defined(summary) \/ ~Defined(updatedAt) THEN Undefined
             ELSE Some([summary |-> Val(summary),
                        details |-> [i \in DOMAIN details |-> details[i].str],
                        updatedAt |-> Val(updatedAt),
                        modelDisplay |-> Undefined])

toRuntimeState(rawState) ==
    IF ~rawState.isRecord THEN Undefined
    ELSE LET snapshot == toSnapshot(rawState.snapshot)
             lastError == toString(rawState.lastError)
             lastAttemptAt == toTimestamp(rawState.lastAttemptAt)
             lastRefreshAt == toTimestamp(rawState.lastRefreshAt)
         IN  IF /\ ~Defined(snapshot)
                /\ ~Defined(lastError)
                /\ ~Defined(lastAttemptAt)
                /\ ~Defined(lastRefreshAt)
             THEN Undefined
             ELSE Some([isRefreshing |-> FALSE, pendingTrailing |-> FALSE,
                        snapshot |-> snapshot, lastError |-> lastError,
                        lastAttemptAt |-> lastAttemptAt,
                        lastRefreshAt |-> lastRefreshAt,
                        lastRequestEndAt |-> Undefined])

\* loadState that gives up at the first entry it cannot use
loadStateAllOrNothing(persisted) ==
    IF \/ ~Defined(persisted)
       \/ Val(persisted).version # STATE_VERSION
       \/ ~Val(persisted).providersIsRecord
       \/ \E p \in DOMAIN Val(persisted).providers :
                ~Defined(toRuntimeState(Val(persisted).providers[p]))
    THEN [p \in Providers |-> Undefined]
    ELSE [p \in Providers |->
            IF p \in DOMAIN Val(persisted).providers
            THEN toRuntimeState(Val(persisted).providers[p])
            ELSE Undefined]

\* loadState: the states map it leaves, starting from the empty map
loadState(persisted) ==
    IF \/ ~Defined(persisted)
       \/ Val(persisted).version # STATE_VERSION
       \/ ~Val(persisted).providersIsRecord
    THEN [p \in Providers |-> Undefined]
    ELSE [p \in Providers |->
            IF p \in DOMAIN Val(persisted).providers
            THEN toRuntimeState(Val(persisted).providers[p])
            ELSE Undefined]

\* --------------------------------------------------------- reconciliation
shouldRefreshOnReconcile(state, t, interval) ==
    IF Defined(state) /\ Val(state).isRefreshing THEN FALSE
    ELSE LET lastCheckpoint ==
                 IF ~Defined(state) THEN Undefined
                 ELSE IF Defined(Val(state).lastAttemptAt) THEN Val(state).lastAttemptAt
                 ELSE IF Defined(Val(state).lastRefreshAt) THEN Val(state).lastRefreshAt
                 ELSE IF Defined(Val(state).snapshot)
                      THEN Some(Val(Val(state).snapshot).updatedAt)
                      ELSE Undefined
         IN  IF ~Defined(lastCheckpoint) THEN TRUE
             ELSE t - Val(lastCheckpoint) >= interval

RECURSIVE ClearEach(_, _)
ClearEach(m, names) ==
    IF names = {} THEN m
    ELSE LET p == CHOOSE q \in names : TRUE
         IN  ClearEach(clearProviderState(m, p), names \ {p})

\* the last loop of reconcileStates, over the active providers
RECURSIVE RefreshDue(_, _)
RefreshDue(m, names) ==
    IF names = {} THEN m
    ELSE LET p == CHOOSE q \in names : TRUE
             next == IF shouldRefreshOnReconcile(m.states[p], now, m.interval)
                     THEN refreshProvider(m, p, Val(getProvider(m.eps, p)), "ui", FALSE)
                     ELSE m
         IN  RefreshDue(next, names \ {p})

\* runPeriodicRefresh and forceRefreshAll: refreshProvider for each target
RECURSIVE RefreshEach(_, _, _, _)
RefreshEach(m, names, reason, force) ==
    IF names = {} THEN m
    ELSE LET p == CHOOSE q \in names : TRUE
         IN  RefreshEach(refreshProvider(m, p, Val(getProvider(m.eps, p)), reason, force),
                         names \ {p}, reason, force)

RECURSIVE DisturbEach(_, _)
DisturbEach(m, names) ==
    IF names = {} THEN m
    ELSE LET p == CHOOSE q \in names : TRUE
         IN  DisturbEach(Disturb(m, p), names \ {p})

ActiveNames(eps) == {p \in Providers : IsConfigured(eps, p)}

\* reconcileStates without its loop over the states of inactive providers
reconcileStatesKeepInactive(m) ==
    LET activeNames == ActiveNames(m.eps)
        nextSignature(p) == getProviderConfigSignature(Val(getProvider(m.eps, p)))
        changed == {p \in Providers :
                        /\ Defined(m.sigs[p])
                        /\ \/ p \notin activeNames
                           \/ nextSignature(p) # Val(m.sigs[p])}
        m1 == ClearEach(m, changed)
        m3 == [m1 EXCEPT !.sigs = [p \in Providers |->
                                      IF p \in activeNames THEN Some(nextSignature(p))
                                      ELSE Undefined]]
    IN  RefreshDue(DisturbEach(m3, Providers), activeNames)

reconcileStates(m) ==
    LET activeNames == ActiveNames(m.eps)
        nextSignature(p) == getProviderConfigSignature(Val(getProvider(m.eps, p)))
        changed == {p \in Providers :
                        /\ Defined(m.sigs[p])
                        /\ \/ p \notin activeNames
                           \/ nextSignature(p) # Val(m.sigs[p])}
        m1 == ClearEach(m, changed)
        m2 == ClearEach(m1, {p \in Providers : Defined(m1.states[p]) /\ p \notin activeNames})
        m3 == [m2 EXCEPT !.sigs = [p \in Providers |->
                                      IF p \in activeNames THEN Some(nextSignature(p))
                                      ELSE Undefined]]
    IN  RefreshDue(DisturbEach(m3, Providers), activeNames)

\* doRefresh without its catch clause: an exception leaves through finally
completeRefreshNoCatch(m, c, result) ==
    LET p == c.provider
        updated(st) ==
            [ (IF Defined(result.throws)
               THEN st
               ELSE IF result.success /\ Defined(result.snapshot)
               THEN [st EXCEPT !.snapshot = result.snapshot,
                               !.lastError = Undefined,
                               !.lastRefreshAt = Some(now)]
               ELSE [st EXCEPT !.lastError = IF Defined(result.error) THEN result.error
                                             ELSE Some("Balance refresh failed.")])
              EXCEPT !.isRefreshing = FALSE ]
        m1 == IF c.attached
              THEN [m EXCEPT !.states[p] = Some(updated(Val(@))),
                             !.dataSig[p] = Some(getProviderConfigSignature(c.config))]
              ELSE m
        m2 == queuePersistState(fire([m1 EXCEPT !.calls = @ \ {c},
                                                    !.retired = @ \cup {c.id},
                                                    !.note = IF m.note # "awaited" THEN ""
                                                             ELSE IF Defined(result.throws)
                                                             THEN "rejected"
                                                             ELSE "resolved"], p))
    IN  scheduleTrailingAfterRefresh([m2 EXCEPT !.inFlight[p] = Undefined], p)

\* a failed attempt that blanks the snapshot
completeRefreshBlanking(m, c, result) ==
    LET p == c.provider
        updated(st) ==
            [ (IF Defined(result.throws)
               THEN [st EXCEPT !.lastError = result.throws]
               ELSE IF result.success /\ Defined(result.snapshot)
               THEN [st EXCEPT !.snapshot = result.snapshot,
                               !.lastError = Undefined,
                               !.lastRefreshAt = Some(now)]
               ELSE [st EXCEPT !.snapshot = Undefined,
                               !.lastError = IF Defined(result.error) THEN result.error
                                             ELSE Some("Balance refresh failed.")])
              EXCEPT !.isRefreshing = FALSE ]
        m1 == IF c.attached
              THEN [m EXCEPT !.states[p] = Some(updated(Val(@))),
                             !.dataSig[p] = Some(getProviderConfigSignature(c.config))]
              ELSE m
        m2 == queuePersistState(fire([m1 EXCEPT !.calls = @ \ {c},
                                                    !.retired = @ \cup {c.id},
                                                    !.note = IF m.note = "awaited"
                                                             THEN "resolved" ELSE ""], p))
    IN  scheduleTrailingAfterRefresh([m2 EXCEPT !.inFlight[p] = Undefined], p)

\* doRefresh that looks the state up by name again after the await
completeRefreshIntoCurrent(m, c, result) ==
    LET p == c.provider
        updated(st) ==
            [ (IF Defined(result.throws)
               THEN [st EXCEPT !.lastError = result.throws]
               ELSE IF result.success /\ Defined(result.snapshot)
               THEN [st EXCEPT !.snapshot = result.snapshot,
                               !.lastError = Undefined,
                               !.lastRefreshAt = Some(now)]
               ELSE [st EXCEPT !.lastError = IF Defined(result.error) THEN result.error
                                             ELSE Some("Balance refresh failed.")])
              EXCEPT !.isRefreshing = FALSE ]
        m1 == IF Defined(m.states[p])
              THEN [m EXCEPT !.states[p] = Some(updated(Val(@))),
                             !.dataSig[p] = Some(getProviderConfigSignature(c.config))]
              ELSE m
        \* the catch clause takes every exception: the promise resolves
        m2 == queuePersistState(fire([m1 EXCEPT !.calls = @ \ {c},
                                                    !.retired = @ \cup {c.id},
                                                    !.note = IF m.note = "awaited"
                                                             THEN "resolved" ELSE ""], p))
    IN  scheduleTrailingAfterRefresh([m2 EXCEPT !.inFlight[p] = Undefined], p)

\* doRefresh from the adapter's answer to its end, then the finally callback
\* of refreshProvider.  m.note = "awaited": a forceRefresh / forceRefreshAll
\* promise settles with this call.
completeRefresh(m, c, result) ==
    LET p == c.provider
        updated(st) ==
            [ (IF Defined(result.throws)
               THEN [st EXCEPT !.lastError = result.throws]
               ELSE IF result.success /\ Defined(result.snapshot)
               THEN [st EXCEPT !.snapshot = result.snapshot,
                               !.lastError = Undefined,
                               !.lastRefreshAt = Some(now)]
               ELSE [st EXCEPT !.lastError = IF Defined(result.error) THEN result.error
                                             ELSE Some("Balance refresh failed.")])
              EXCEPT !.isRefreshing = FALSE ]
        m1 == IF c.attached
              THEN [m EXCEPT !.states[p] = Some(updated(Val(@))),
                             !.dataSig[p] = Some(getProviderConfigSignature(c.config))]
              ELSE m
        \* the catch clause takes every exception: the promise resolves
        m2 == queuePersistState(fire([m1 EXCEPT !.calls = @ \ {c},
                                                    !.retired = @ \cup {c.id},
                                                    !.note = IF m.note = "awaited"
                                                             THEN "resolved" ELSE ""], p))
    IN  scheduleTrailingAfterRefresh([m2 EXCEPT !.inFlight[p] = Undefined], p)

\* ------------------------------------------------------------------ steps
\* A saveState call up to its await of globalState.update (late: it was
\* started after dispose).
NewWrite(sts, sigs) ==
    [data |-> saveState(sts), sigs |-> sigs, late |-> phase = "disposed"]

\* The end of a task: the context becomes the manager's state and the
\* queuePersistState calls join persistChain.  An idle chain starts its
\* first saveState before any other task runs, so that write holds the
\* states as this task leaves them.
\* (m is bound to the value of the task's context, computed once.)
Finish(task) ==
    \E m \in {task} :
        /\ states' = m.states
        /\ configSignatures' = m.sigs
        /\ refreshInFlight' = m.inFlight
        /\ trailingTimers' = m.timers
        /\ calls' = m.calls
        /\ lastNonForcedAt' = m.lastNonForcedAt
        /\ burst' = m.burst
        /\ owed' = m.owed
        /\ requestCallAt' = m.requestCallAt
        /\ note' = IF m.note = "request" THEN "" ELSE m.note
        /\ dataSig' = m.dataSig
        /\ fired' = IF phase = "disposed" THEN {} ELSE m.fired
        /\ seen' = IF phase = "disposed" THEN NoneSeen ELSE m.seen
        /\ orphanChains' = orphanChains
        /\ IF m.persistReq = 0
           THEN UNCHANGED << persistWriting, persistQueued >>
           ELSE IF Defined(persistWriting)
           THEN /\ persistQueued' = persistQueued + m.persistReq
                /\ UNCHANGED persistWriting
           ELSE /\ persistWriting' = Some(NewWrite(m.states, m.dataSig))
                /\ persistQueued' = persistQueued + m.persistReq - 1
        /\ persistQueued' <= MaxPersistQueue

\* An event from outside the manager; none is considered after MaxTime.
External == /\ events < MaxEvents
            /\ now <= MaxTime
            /\ events' = events + 1

Running == phase = "running"

\* startPeriodicRefresh that does not clear the interval timer it replaces
startPeriodicRefreshNoClear(interval) ==
    Some([interval |-> interval, dueAt |-> now + interval,
          live |-> (IF Defined(periodicTimer) THEN Val(periodicTimer).live ELSE 0) + 1])

\* startPeriodicRefresh: clearInterval of the timer in the field, then
\* setInterval.  live counts the interval timers of the manager the runtime
\* holds.
startPeriodicRefresh(interval) ==
    Some([interval |-> interval, dueAt |-> now + interval,
          live |-> (IF Defined(periodicTimer) THEN Val(periodicTimer).live - 1 ELSE 0) + 1])

Init ==
    /\ now = 0
    /\ phase = "constructed"
    /\ endpoints = [p \in Providers |-> IF p = "acme" THEN Some(CfgA) ELSE Undefined]
    /\ throttleWindowMs = ThrottleWindow
    /\ refreshIntervalMs = RefreshInterval
    /\ states = [p \in Providers |-> Undefined]
    /\ configSignatures = [p \in Providers |-> Undefined]
    /\ refreshInFlight = [p \in Providers |-> Undefined]
    /\ trailingTimers = [p \in Providers |-> Undefined]
    /\ periodicTimer = Undefined
    /\ calls = {}
    /\ waiters = {}
    /\ persistWriting = Undefined
    /\ persistQueued = 0
    /\ globalState = Undefined
    /\ lastNonForcedAt = [p \in Providers |-> Undefined]
    /\ burst = [p \in Providers |-> NoBurst]
    /\ owed = [p \in Providers |-> "none"]
    /\ requestCallAt = [p \in Providers |-> Undefined]
    /\ note = ""
    /\ dataSig = [p \in Providers |-> Undefined]
    /\ storeSig = [p \in Providers |-> Undefined]
    /\ loaded = [p \in Providers |-> Undefined]
    /\ events = 0
    /\ fired = {}
    /\ seen = NoneSeen
    /\ orphanChains = << >>

\* initialize that runs the first reconcileStates before loadState
InitializeReconcileFirst ==
    /\ phase = "constructed"
    /\ LET restored == loadState(globalState)
           m == reconcileStates(Context)
       IN  /\ loaded' = restored
           /\ Finish([m EXCEPT !.states = [p \in Providers |->
                                                IF Defined(restored[p]) THEN restored[p]
                                                ELSE @[p]],
                               !.dataSig = [p \in Providers |->
                                                IF Defined(restored[p]) THEN storeSig[p]
                                                ELSE @[p]]])
    /\ periodicTimer' = startPeriodicRefresh(refreshIntervalMs)
    /\ phase' = "running"
    /\ UNCHANGED << now, endpoints, throttleWindowMs, refreshIntervalMs, waiters,
                    globalState, storeSig, events >>

\* initialize of a freshly constructed manager (disposeRuntime finds nothing)
Initialize ==
    /\ phase = "constructed"
    /\ LET restored == loadState(globalState)
           m == [Context EXCEPT !.states = restored,
                                !.dataSig = [p \in Providers |->
                                                IF Defined(restored[p]) THEN storeSig[p]
                                                ELSE Undefined]]
       IN  /\ loaded' = restored
           /\ Finish(reconcileStates(m))
    /\ periodicTimer' = startPeriodicRefresh(refreshIntervalMs)
    /\ phase' = "running"
    /\ UNCHANGED << now, endpoints, throttleWindowMs, refreshIntervalMs, waiters,
                    globalState, storeSig, events >>

\* notifyChatRequestFinished without the test of the outcome
notifyChatRequestFinishedAnyOutcome(m, p, outcome) ==
    scheduleRefresh([m EXCEPT !.note = IF outcome = "cancelled" THEN "cancelled" ELSE ""],
                    p, "post-request-immediate", TRUE, FALSE)

notifyChatRequestFinished(m, p, outcome) ==
    IF outcome = "cancelled" THEN [m EXCEPT !.note = "cancelled"]
    ELSE scheduleRefresh(m, p, "post-request-immediate", TRUE, FALSE)

NotifyChatRequestFinished(p, outcome) ==
    /\ Running
    /\ External
    /\ Finish(notifyChatRequestFinished(Context, p, outcome))
    /\ UNCHANGED << now, phase, endpoints, throttleWindowMs, refreshIntervalMs,
                    periodicTimer, waiters, globalState, storeSig, loaded >>

requestRefresh(m, p, reason) ==
    scheduleRefresh([m EXCEPT !.note = IF reason = "manual" THEN "" ELSE "request"],
                    p, reason, FALSE, reason = "manual")

RequestRefresh(p, reason) ==
    /\ Running
    /\ External
    /\ Finish(requestRefresh(Context, p, reason))
    /\ UNCHANGED << now, phase, endpoints, throttleWindowMs, refreshIntervalMs,
                    periodicTimer, waiters, globalState, storeSig, loaded >>

\* The promise a caller of refreshProvider awaits: the one already in
\* flight, else the new one; none when the call returned synchronously.
Awaited(before, after, p) ==
    IF Defined(before.inFlight[p]) THEN before.inFlight[p] ELSE after.inFlight[p]

\* forceRefresh that passes force = false
forceRefreshThrottled(m, p) ==
    IF ~IsConfigured(m.eps, p) THEN m
    ELSE refreshProvider(Disturb(m, p), p, Val(getProvider(m.eps, p)), "manual", FALSE)

forceRefresh(m, p) ==
    IF ~IsConfigured(m.eps, p) THEN m
    ELSE refreshProvider(Disturb(m, p), p, Val(getProvider(m.eps, p)), "manual", TRUE)

ForceRefresh(p) ==
    /\ Running
    /\ External
    /\ LET m == Context
           m1 == forceRefresh(m, p)
           on == IF IsConfigured(m.eps, p) THEN Awaited(m, m1, p) ELSE Undefined
       IN  /\ Finish(m1)
           /\ waiters' = IF Defined(on)
                         THEN waiters \cup {[api |-> "forceRefresh", on |-> {Val(on)},
                                             joined |-> Defined(m.inFlight[p]),
                                             count |-> 0]}
                         ELSE waiters
    /\ Cardinality(waiters') <= MaxWaiters
    /\ UNCHANGED << now, phase, endpoints, throttleWindowMs, refreshIntervalMs,
                    periodicTimer, globalState, storeSig, loaded >>

\* forceRefreshAll that refreshes one target only
forceRefreshAllFirstOnly(m) ==
    LET targets == ActiveNames(m.eps)
    IN  IF targets = {} THEN m
        ELSE RefreshEach(DisturbEach(m, Providers),
                         {CHOOSE p \in targets : TRUE}, "manual", TRUE)

forceRefreshAll(m) ==
    RefreshEach(DisturbEach(m, Providers), ActiveNames(m.eps), "manual", TRUE)

ForceRefreshAll ==
    /\ Running
    /\ External
    /\ LET m == Context
           m1 == forceRefreshAll(m)
           targets == ActiveNames(m.eps)
           on == {Val(Awaited(m, m1, p)) : p \in {q \in targets : Defined(Awaited(m, m1, q))}}
       IN  /\ Finish(m1)
           /\ waiters' = IF on # {}
                         THEN waiters \cup {[api |-> "forceRefreshAll", on |-> on,
                                             joined |-> \E q \in targets : Defined(m.inFlight[q]),
                                             count |-> Cardinality(targets)]}
                         ELSE waiters
    /\ Cardinality(waiters') <= MaxWaiters
    /\ UNCHANGED << now, phase, endpoints, throttleWindowMs, refreshIntervalMs,
                    periodicTimer, globalState, storeSig, loaded >>

runPeriodicRefresh(m) ==
    RefreshEach(DisturbEach(m, Providers), ActiveNames(m.eps), "periodic", FALSE)

\* the setInterval callback
PeriodicTick ==
    /\ Running
    /\ Defined(periodicTimer)
    /\ now >= Val(periodicTimer).dueAt
    /\ Finish(runPeriodicRefresh(Context))
    /\ periodicTimer' = Some([Val(periodicTimer) EXCEPT !.dueAt = now + Val(periodicTimer).interval])
    /\ UNCHANGED << now, phase, endpoints, throttleWindowMs, refreshIntervalMs,
                    waiters, globalState, storeSig, loaded, events >>

\* the setTimeout callback of scheduleTrailingTimer
TrailingTimerFire(p) ==
    /\ Defined(trailingTimers[p])
    /\ now >= Val(trailingTimers[p])
    /\ Finish(flushTrailingRefresh([Context EXCEPT !.timers[p] = Undefined], p))
    /\ UNCHANGED << now, phase, endpoints, throttleWindowMs, refreshIntervalMs,
                    periodicTimer, waiters, globalState, storeSig, loaded, events >>

\* An adapter call ends with result; promises awaiting it settle.
Complete(c, result) ==
    /\ c \in calls
    /\ Finish(completeRefresh(
                [Context EXCEPT !.note = IF \E w \in waiters : w.on = {c.id}
                                         THEN "awaited" ELSE ""],
                c, result))
    /\ waiters' = { [w EXCEPT !.on = @ \ {c.id}] :
                      w \in {v \in waiters : v.on # {c.id}} }
    /\ UNCHANGED << now, phase, endpoints, throttleWindowMs, refreshIntervalMs,
                    periodicTimer, globalState, storeSig, loaded, events >>

\* The configuration store changes one provider entry and announces it:
\* the onDidChange listener runs reconcileStates and startPeriodicRefresh.
ConfigChange(p, provider) ==
    /\ Running
    /\ External
    /\ provider # endpoints[p]
    /\ endpoints' = [endpoints EXCEPT ![p] = provider]
    /\ Finish(reconcileStates([Context EXCEPT !.eps = endpoints']))
    /\ periodicTimer' = startPeriodicRefresh(refreshIntervalMs)
    /\ UNCHANGED << now, phase, throttleWindowMs, refreshIntervalMs, waiters,
                    globalState, storeSig, loaded >>

\* a failed write that is started again
PersistFinishRetry(ok) ==
    /\ Defined(persistWriting)
    /\ IF ok
       THEN /\ globalState' = Some(Val(persistWriting).data)
            /\ storeSig' = Val(persistWriting).sigs
       ELSE UNCHANGED << globalState, storeSig >>
    /\ IF ~ok
       THEN UNCHANGED << persistWriting, persistQueued >>
       ELSE IF persistQueued > 0
       THEN /\ persistWriting' = Some(NewWrite(states, dataSig))
            /\ persistQueued' = persistQueued - 1
       ELSE /\ persistWriting' = Undefined
            /\ UNCHANGED persistQueued
    /\ UNCHANGED << now, phase, endpoints, throttleWindowMs, refreshIntervalMs,
                    states, configSignatures, refreshInFlight, trailingTimers,
                    periodicTimer, calls, waiters, lastNonForcedAt, burst, owed,
                    requestCallAt, dataSig, loaded, events, orphanChains >>
    /\ note' = IF ok THEN "" ELSE "write failed"
    /\ fired' = {}
    /\ seen' = NoneSeen

\* globalState.update of the running saveState ends; the next saveState of
\* the chain, if any, starts and reads the states as they are now.  A failure
\* (~ok) goes to the chain's catch, which logs it.
PersistFinish(ok) ==
    /\ Defined(persistWriting)
    /\ IF ok
       THEN /\ globalState' = Some(Val(persistWriting).data)
            /\ storeSig' = Val(persistWriting).sigs
       ELSE UNCHANGED << globalState, storeSig >>
    /\ IF persistQueued > 0
       THEN /\ persistWriting' = Some(NewWrite(states, dataSig))
            /\ persistQueued' = persistQueued - 1
       ELSE /\ persistWriting' = Undefined
            /\ UNCHANGED persistQueued
    /\ UNCHANGED << now, phase, endpoints, throttleWindowMs, refreshIntervalMs,
                    states, configSignatures, refreshInFlight, trailingTimers,
                    periodicTimer, calls, waiters, lastNonForcedAt, burst, owed,
                    requestCallAt, dataSig, loaded, events, orphanChains >>
    /\ note' = IF ok THEN "" ELSE "write failed"
    /\ fired' = {}
    /\ seen' = NoneSeen

\* Time passes.  Timers are punctual: a timer that is due fires before the
\* clock moves on.  After MaxTime the clock runs on only until the pending
\* trailing timers have fired.
Tick ==
    /\ \A p \in Providers : Defined(trailingTimers[p]) => Val(trailingTimers[p]) > now
    /\ Defined(periodicTimer) => Val(periodicTimer).dueAt > now
    /\ \/ now < MaxTime
       \/ \E p \in Providers : Defined(trailingTimers[p])
    /\ now' = now + 1
    /\ UNCHANGED << phase, endpoints, throttleWindowMs, refreshIntervalMs, states,
                    configSignatures, refreshInFlight, trailingTimers, periodicTimer,
                    calls, waiters, persistWriting, persistQueued, globalState,
                    lastNonForcedAt, burst, owed, requestCallAt, dataSig, storeSig,
                    loaded, events, orphanChains >>
    /\ note' = ""
    /\ fired' = {}
    /\ seen' = NoneSeen

Outcomes == {"success", "error", "cancelled"}

AnyConfig == {Undefined} \cup {Some(cfg) : cfg \in ProviderConfigs}

\* ------------------------------------------------------- the scheduler run
\* One lifetime of the manager, with one provider (acme) in use.  The store is taken to be fast: a write
\* ends, successfully, before the next task of the manager runs (nothing the
\* scheduler decides reads persistChain or globalState after loadState).
StoreIdle == ~Defined(persistWriting)

SchedulerReasons == {"ui", "manual"}
SchedulerConfigs == {Undefined, Some(CfgA), Some(CfgB), Some(CfgNone)}
SchedulerResults(t) ==
    {r \in AdapterResults(t) :
        \/ Defined(r.snapshot) /\ Defined(Val(r.snapshot).modelDisplay)
        \/ Defined(r.error)}

Next ==
    \/ StoreIdle /\ Initialize
    \/ StoreIdle /\ \E outcome \in Outcomes : NotifyChatRequestFinished("acme", outcome)
    \/ StoreIdle /\ \E reason \in SchedulerReasons : RequestRefresh("acme", reason)
    \/ StoreIdle /\ ForceRefresh("acme")
    \/ StoreIdle /\ ForceRefreshAll
    \/ StoreIdle /\ PeriodicTick
    \/ StoreIdle /\ TrailingTimerFire("acme")
    \/ StoreIdle /\ \E c \in calls, result \in SchedulerResults(now) : Complete(c, result)
    \/ StoreIdle /\ \E provider \in SchedulerConfigs : ConfigChange("acme", provider)
    \/ PersistFinish(TRUE)
    \/ StoreIdle /\ Tick

Spec == Init /\ [][Next]_vars

\* ------------------------------------------------------ the trailing run
\* The provider stays configured as it is and the manager is not disposed.
\* An adapter call ends, timers fire when due, the clock moves and a
\* globalState write ends; nothing obliges the outside to send events.
NextTrailing ==
    \/ StoreIdle /\ Initialize
    \/ StoreIdle /\ \E outcome \in {"success", "error"} : NotifyChatRequestFinished("acme", outcome)
    \/ StoreIdle /\ PeriodicTick
    \/ StoreIdle /\ TrailingTimerFire("acme")
    \/ StoreIdle /\ \E c \in calls, result \in SchedulerResults(now) : Complete(c, result)
    \/ PersistFinish(TRUE)
    \/ StoreIdle /\ Tick

Internal ==
    \/ StoreIdle /\ Tick
    \/ StoreIdle /\ PeriodicTick
    \/ StoreIdle /\ TrailingTimerFire("acme")
    \/ StoreIdle /\ \E c \in calls, result \in SchedulerResults(now) : Complete(c, result)
    \/ PersistFinish(TRUE)

FairSpec ==
    /\ Init /\ [][NextTrailing]_vars
    /\ WF_vars(Internal)

\* ------------------------------------------------- across extension restarts
\* The extension host ends and a new one starts: a new BalanceManager is
\* constructed, nothing in memory survives, globalState does.
Restart ==
    /\ Running
    /\ External
    /\ phase' = "constructed"
    /\ states' = [p \in Providers |-> Undefined]
    /\ configSignatures' = [p \in Providers |-> Undefined]
    /\ refreshInFlight' = [p \in Providers |-> Undefined]
    /\ trailingTimers' = [p \in Providers |-> Undefined]
    /\ periodicTimer' = Undefined
    /\ calls' = {}
    /\ waiters' = {}
    /\ persistWriting' = Undefined
    /\ persistQueued' = 0
    /\ lastNonForcedAt' = [p \in Providers |-> Undefined]
    /\ burst' = [p \in Providers |-> NoBurst]
    /\ owed' = [p \in Providers |-> "none"]
    /\ requestCallAt' = [p \in Providers |-> Undefined]
    /\ note' = ""
    /\ dataSig' = [p \in Providers |-> Undefined]
    /\ loaded' = [p \in Providers |-> Undefined]
    /\ fired' = {}
    /\ seen' = NoneSeen
    /\ orphanChains' = << >>
    /\ UNCHANGED << now, endpoints, throttleWindowMs, refreshIntervalMs, globalState,
                    storeSig >>

\* settings.json is edited while no manager is initialized
ConfigEditOffline(p, provider) ==
    /\ phase = "constructed"
    /\ External
    /\ provider # endpoints[p]
    /\ endpoints' = [endpoints EXCEPT ![p] = provider]
    /\ note' = ""
    /\ fired' = {}
    /\ seen' = NoneSeen
    /\ orphanChains' = orphanChains
    /\ UNCHANGED << now, phase, throttleWindowMs, refreshIntervalMs, states,
                    configSignatures, refreshInFlight, trailingTimers, periodicTimer,
                    calls, waiters, persistWriting, persistQueued, globalState,
                    lastNonForcedAt, burst, owed, requestCallAt, dataSig, storeSig,
                    loaded >>

\* A globalState write may fail; as in the scheduler run it ends before the
\* next task of the manager.
LifeConfigs == {Some(CfgA), Some(CfgB), Some(CfgNone)}

NextLife ==
    \/ StoreIdle /\ Initialize
    \/ StoreIdle /\ RequestRefresh("acme", "manual")
    \/ StoreIdle /\ PeriodicTick
    \/ StoreIdle /\ \E c \in calls, result \in SchedulerResults(now) : Complete(c, result)
    \/ StoreIdle /\ \E provider \in LifeConfigs : ConfigChange("acme", provider)
    \/ \E ok \in BOOLEAN : PersistFinish(ok)
    \/ StoreIdle /\ Tick
    \/ StoreIdle /\ Restart
    \/ StoreIdle /\ \E provider \in LifeConfigs : ConfigEditOffline("acme", provider)

SpecLife == Init /\ [][NextLife]_vars

\* ------------------------------------------------------ the adapter's answers
\* One lifetime in which an adapter call may end in each of the ways an
\* adapter can end it.
ResultKinds(t) ==
    {r \in AdapterResults(t) :
        Defined(r.snapshot) => Defined(Val(r.snapshot).modelDisplay)}

NextResults ==
    \/ StoreIdle /\ Initialize
    \/ StoreIdle /\ NotifyChatRequestFinished("acme", "success")
    \/ StoreIdle /\ ForceRefresh("acme")
    \/ StoreIdle /\ ForceRefreshAll
    \/ StoreIdle /\ PeriodicTick
    \/ StoreIdle /\ TrailingTimerFire("acme")
    \/ StoreIdle /\ \E c \in calls, result \in ResultKinds(now) : Complete(c, result)
    \/ StoreIdle /\ ConfigChange("acme", Some(CfgB))
    \/ PersistFinish(TRUE)
    \/ StoreIdle /\ Tick

SpecResults == Init /\ [][NextResults]_vars

\* ------------------------------------------------------------------ teardown
\* dispose(): disposeRuntime and onDidUpdateEmitter.dispose().  Adapter calls
\* in progress go on, each holding the state object it captured; the promise
\* chain that persistChain pointed to goes on as well, while persistChain is
\* a fresh resolved promise.  extensionContext and configStore stay set.
Dispose ==
    /\ Running
    /\ External
    /\ phase' = "disposed"
    /\ states' = [p \in Providers |-> Undefined]
    /\ configSignatures' = [p \in Providers |-> Undefined]
    /\ refreshInFlight' = [p \in Providers |-> Undefined]
    /\ trailingTimers' = [p \in Providers |-> Undefined]
    /\ periodicTimer' = Undefined
    /\ calls' = {[c EXCEPT !.attached = FALSE] : c \in calls}
    /\ persistWriting' = Undefined
    /\ persistQueued' = 0
    /\ orphanChains' = IF Defined(persistWriting)
                       THEN Append(orphanChains, [writing |-> Val(persistWriting),
                                                  queued |-> persistQueued])
                       ELSE orphanChains
    /\ lastNonForcedAt' = [p \in Providers |-> Undefined]
    /\ burst' = [p \in Providers |-> NoBurst]
    /\ owed' = [p \in Providers |-> "none"]
    /\ requestCallAt' = [p \in Providers |-> Undefined]
    /\ note' = ""
    /\ dataSig' = [p \in Providers |-> Undefined]
    /\ fired' = {}
    /\ seen' = NoneSeen
    /\ UNCHANGED << now, endpoints, throttleWindowMs, refreshIntervalMs, waiters,
                    globalState, storeSig, loaded >>

\* globalState.update of a saveState on a dropped chain ends; the next
\* saveState of that chain, if any, starts and reads the states as they are.
OrphanFinish(ok) ==
    /\ orphanChains # << >>
    /\ LET chain == Head(orphanChains)
       IN  /\ IF ok
              THEN /\ globalState' = Some(chain.writing.data)
                   /\ storeSig' = chain.writing.sigs
              ELSE UNCHANGED << globalState, storeSig >>
           /\ orphanChains' =
                 IF chain.queued > 0
                 THEN << [writing |-> NewWrite(states, dataSig),
                          queued |-> chain.queued - 1] >> \o Tail(orphanChains)
                 ELSE Tail(orphanChains)
    /\ note' = ""
    /\ fired' = {}
    /\ seen' = NoneSeen
    /\ UNCHANGED << now, phase, endpoints, throttleWindowMs, refreshIntervalMs,
                    states, configSignatures, refreshInFlight, trailingTimers,
                    periodicTimer, calls, waiters, persistWriting, persistQueued,
                    lastNonForcedAt, burst, owed, requestCallAt, dataSig, loaded,
                    events >>

\* One lifetime that ends with dispose.  Until then the store is fast, as in
\* the scheduler run, except that dispose may come while a write is in
\* progress; after it adapter calls and writes end in any order.
NextDispose ==
    \/ StoreIdle /\ Initialize
    \/ StoreIdle /\ NotifyChatRequestFinished("acme", "success")
    \/ StoreIdle /\ RequestRefresh("acme", "manual")
    \/ StoreIdle /\ PeriodicTick
    \/ StoreIdle /\ TrailingTimerFire("acme")
    \/ (StoreIdle \/ phase = "disposed")
            /\ \E c \in calls, result \in SchedulerResults(now) : Complete(c, result)
    \/ Dispose
    \/ PersistFinish(TRUE)
    \/ OrphanFinish(TRUE)
    \/ StoreIdle /\ Tick

SpecDispose == Init /\ [][NextDispose]_vars

\* --------------------------------------------------- what the store may hold
\* globalState is shared with older versions of the extension and may hold
\* anything JSON can: the values below are what loadState is started on.
JsonNull == [type |-> "null", num |-> 0, str |-> ""]

StoredTimestamps ==
    {Undefined, Some(JsonNumber(0)), Some(JsonNumber(1)), Some(JsonNumber(0 - 1)),
     Some(JsonString("1"))}
StoredErrors == {Undefined, Some(JsonString("quota exceeded")), Some(JsonNumber(1))}
StoredSnapshots ==
    {Undefined,
     Some(JsonNull),
     Some(JsonString("Balance: 10")),
     Some(JsonSnapshot(MkSnapshot(FALSE, 1))),
     Some([JsonSnapshot(MkSnapshot(FALSE, 1)) EXCEPT !.summary = Undefined]),
     Some([JsonSnapshot(MkSnapshot(FALSE, 1)) EXCEPT !.updatedAt = Some(JsonNumber(0 - 1))]),
     Some([JsonSnapshot(MkSnapshot(FALSE, 1)) EXCEPT
                !.details = [isArray |-> FALSE, items |-> << >>]]),
     Some([JsonSnapshot(MkSnapshot(FALSE, 1)) EXCEPT
                !.details = [isArray |-> TRUE,
                             items |-> << JsonNumber(5), JsonString("Balance: 10") >>]])}

NonRecordEntry ==
    [isRecord |-> FALSE, snapshot |-> Undefined, lastError |-> Undefined,
     lastAttemptAt |-> Undefined, lastRefreshAt |-> Undefined]

StoredEntries ==
    {NonRecordEntry} \cup
    [isRecord : {TRUE}, snapshot : StoredSnapshots, lastError : StoredErrors,
     lastAttemptAt : StoredTimestamps, lastRefreshAt : {Undefined, Some(JsonNumber(0 - 1))}]

\* beta's entry, when there is one: a well-formed one or a non-record
OtherEntries ==
    {NonRecordEntry,
     [isRecord |-> TRUE, snapshot |-> Undefined, lastError |-> Undefined,
      lastAttemptAt |-> Some(JsonNumber(0)), lastRefreshAt |-> Undefined]}

StoredProviders ==
    {<< >>}
    \cup {[p \in {"acme"} |-> e] : e \in StoredEntries}
    \cup {[p \in {"beta"} |-> o] : o \in OtherEntries}
    \cup {[p \in Providers |-> IF p = "acme" THEN e ELSE o] :
                e \in StoredEntries, o \in OtherEntries}

StoredValues ==
    {Undefined} \cup
    {Some([version |-> v, providersIsRecord |-> r, providers |-> IF r THEN ps ELSE << >>]) :
        v \in {STATE_VERSION, STATE_VERSION + 1}, r \in BOOLEAN, ps \in StoredProviders}

\* A manager is constructed over a store that holds one of these values.
InitLoad ==
    /\ now = 1
    /\ phase = "constructed"
    /\ endpoints = [p \in Providers |-> IF p = "acme" THEN Some(CfgA) ELSE Undefined]
    /\ throttleWindowMs = ThrottleWindow
    /\ refreshIntervalMs = RefreshInterval
    /\ states = [p \in Providers |-> Undefined]
    /\ configSignatures = [p \in Providers |-> Undefined]
    /\ refreshInFlight = [p \in Providers |-> Undefined]
    /\ trailingTimers = [p \in Providers |-> Undefined]
    /\ periodicTimer = Undefined
    /\ calls = {}
    /\ waiters = {}
    /\ persistWriting = Undefined
    /\ persistQueued = 0
    /\ globalState \in StoredValues
    /\ lastNonForcedAt = [p \in Providers |-> Undefined]
    /\ burst = [p \in Providers |-> NoBurst]
    /\ owed = [p \in Providers |-> "none"]
    /\ requestCallAt = [p \in Providers |-> Undefined]
    /\ note = ""
    /\ dataSig = [p \in Providers |-> Undefined]
    /\ storeSig = [p \in Providers |-> Undefined]
    /\ loaded = [p \in Providers |-> Undefined]
    /\ events = 0
    /\ fired = {}
    /\ seen = NoneSeen
    /\ orphanChains = << >>

NextLoad ==
    \/ StoreIdle /\ Initialize
    \/ PersistFinish(TRUE)

SpecLoad == InitLoad /\ [][NextLoad]_vars

\* ------------------------------------------------- a method without adapter
\* The provider's balance method may be set to one createBalanceProvider
\* does not know, and back.
AdapterlessConfigs == {Some(CfgA), Some(CfgUnsupported)}

NextAdapterless ==
    \/ StoreIdle /\ Initialize
    \/ StoreIdle /\ NotifyChatRequestFinished("acme", "success")
    \/ StoreIdle /\ RequestRefresh("acme", "ui")
    \/ StoreIdle /\ PeriodicTick
    \/ StoreIdle /\ TrailingTimerFire("acme")
    \/ StoreIdle /\ \E c \in calls, result \in SchedulerResults(now) : Complete(c, result)
    \/ StoreIdle /\ \E provider \in AdapterlessConfigs : ConfigChange("acme", provider)
    \/ PersistFinish(TRUE)
    \/ StoreIdle /\ Tick

SpecAdapterless == Init /\ [][NextAdapterless]_vars

\* ------------------------------------------------------ settings edited
\* The user edits the settings while the manager runs: a field of the
\* provider that is not part of its config signature (models), or the
\* periodic interval.  The configuration store fires onDidChange for each.
CosmeticConfigs == {Some(CfgA), Some(CfgACosmetic)}
IntervalChoices == {RefreshInterval, RefreshInterval + 1}

\* balanceRefreshIntervalMs is edited: the onDidChange listener of initialize()
SettingsChange(interval) ==
    /\ Running
    /\ External
    /\ interval # refreshIntervalMs
    /\ refreshIntervalMs' = interval
    /\ Finish(reconcileStates([Context EXCEPT !.interval = interval]))
    /\ periodicTimer' = startPeriodicRefresh(interval)
    /\ UNCHANGED << now, phase, endpoints, throttleWindowMs, waiters,
                    globalState, storeSig, loaded >>

NextSettings ==
    \/ StoreIdle /\ Initialize
    \/ StoreIdle /\ NotifyChatRequestFinished("acme", "success")
    \/ StoreIdle /\ PeriodicTick
    \/ StoreIdle /\ TrailingTimerFire("acme")
    \/ StoreIdle /\ \E c \in calls, result \in SchedulerResults(now) : Complete(c, result)
    \/ StoreIdle /\ \E provider \in CosmeticConfigs : ConfigChange("acme", provider)
    \/ StoreIdle /\ \E interval \in IntervalChoices : SettingsChange(interval)
    \/ PersistFinish(TRUE)
    \/ StoreIdle /\ Tick

SpecSettings == Init /\ [][NextSettings]_vars

\* ------------------------------------------------------- a slow store
\* globalState.update takes its time: tasks of the manager run while a write
\* is in progress and their saveState calls wait on persistChain.  The
\* provider is removed from the settings and put back.  Writes succeed, and
\* whatever the manager has started comes to its end.
StoreConfigs == {Undefined, Some(CfgA)}

NextStore ==
    \/ Initialize
    \/ NotifyChatRequestFinished("acme", "success")
    \/ TrailingTimerFire("acme")
    \/ \E c \in calls, result \in SchedulerResults(now) : Complete(c, result)
    \/ \E provider \in StoreConfigs : ConfigChange("acme", provider)
    \/ PersistFinish(TRUE)
    \/ Tick

StoreProgress ==
    \/ TrailingTimerFire("acme")
    \/ \E c \in calls, result \in SchedulerResults(now) : Complete(c, result)
    \/ PersistFinish(TRUE)
    \/ Tick

SpecStore ==
    /\ Init /\ [][NextStore]_vars
    /\ WF_vars(StoreProgress)

\* ------------------------------------------------------------ two providers
\* A second provider (beta) is added with a balance method, or with method
\* none, and refreshes of both are forced together.
SecondConfigs == {Some(CfgA), Some(CfgNone)}

NextBoth ==
    \/ StoreIdle /\ Initialize
    \/ StoreIdle /\ ForceRefreshAll
    \/ StoreIdle /\ PeriodicTick
    \/ StoreIdle /\ \E c \in calls, result \in SchedulerResults(now) : Complete(c, result)
    \/ StoreIdle /\ \E provider \in SecondConfigs : ConfigChange("beta", provider)
    \/ PersistFinish(TRUE)
    \/ StoreIdle /\ Tick

SpecBoth == Init /\ [][NextBoth]_vars

\* ------------------------------------------------- each provider by itself
\* beta is added with the balance method of acme; requests finish and the
\* view asks for a refresh for either provider, and the adapter answers with
\* a balance. The run ends when the periodic timer comes due.
EachResults(t) == {r \in SchedulerResults(t) : Defined(r.snapshot)}

NextEach ==
    \/ StoreIdle /\ Initialize
    \/ StoreIdle /\ ConfigChange("beta", Some(CfgA))
    \/ StoreIdle /\ \E p \in Providers : NotifyChatRequestFinished(p, "success")
    \/ StoreIdle /\ \E p \in Providers : RequestRefresh(p, "ui")
    \/ StoreIdle /\ \E p \in Providers : TrailingTimerFire(p)
    \/ StoreIdle /\ \E c \in calls, result \in EachResults(now) : Complete(c, result)
    \/ PersistFinish(TRUE)
    \/ StoreIdle /\ Tick

SpecEach == Init /\ [][NextEach]_vars

\* ================================================================ properties
CallsOf(cs, p) == {c \in cs : c.provider = p}
PendingTrailing(sts, p) == Defined(sts[p]) /\ Val(sts[p]).pendingTrailing
\* the adapter calls a step starts, and those it sees end
Started == {c \in calls' : \A d \in calls : d.id # c.id}
Ended == {c \in calls : \A d \in calls' : d.id # c.id}

\* ---- C1
\* C1: whatever the interleaving of triggers and adapter completions, at most
\* one adapter call of a provider is outstanding at any time.
C1_AtMostOneInFlight ==
    \A p \in Providers : Cardinality(CallsOf(calls, p)) <= 1

\* A post-request trigger arrived while the provider's call was outstanding.
C1_Witness ==
    /\ CallsOf(calls, "acme") # {}
    /\ owed["acme"] = "owed"
    /\ PendingTrailing(states, "acme")

\* ---- C2
\* C2: N >= 1 throttled post-request triggers with no other trigger in
\* between are answered by exactly one adapter call: none while
\* pendingTrailing is set, one once it is cleared, and that call starts no
\* earlier than one throttle window after the last of the N triggers.
C2_OneCallPerBurst ==
    \A p \in Providers :
        burst[p].n >= 1 =>
            burst[p].calls = (IF PendingTrailing(states, p) THEN 0 ELSE 1)

C2_CallAfterWindow ==
    \A p \in Providers :
        (burst[p].n >= 1 /\ burst[p].calls = 0 /\ burst'[p].calls >= 1) =>
            /\ Defined(Val(states[p]).lastRequestEndAt)
            /\ now >= Val(Val(states[p]).lastRequestEndAt) + throttleWindowMs

C2_TrailingCoalescing == [](C2_OneCallPerBurst) /\ [][C2_CallAfterWindow]_vars

\* Two or more triggers were coalesced and one call has answered them.
C2_Witness ==
    /\ burst["acme"].n = 2
    /\ burst["acme"].calls = 1
    /\ ~PendingTrailing(states, "acme")

\* ---- C3
\* C3: a post-request trigger that arrives while a refresh of the provider is
\* in flight is followed by the start of an adapter call for the provider
\* (unless a configuration change discards the provider's state first).
C3_TrailingNeverLost == (owed["acme"] = "owed") ~> (owed["acme"] # "owed")

\* Such a trigger arrived and a call started after it.
C3_Witness == owed["acme"] = "served"

\* ---- C4
\* A non-manual requestRefresh arrives less than W after one that invoked the
\* adapter.
SecondRequest(p) ==
    /\ RequestRefresh(p, "ui")
    /\ Defined(requestCallAt[p])
    /\ now - Val(requestCallAt[p]).at < throttleWindowMs

NothingStarted(p) ==
    /\ Started = {}
    /\ trailingTimers' = trailingTimers
    /\ PendingTrailing(states', p) = PendingTrailing(states, p)

ForcedStep(p) ==
    \/ ForceRefresh(p)
    \/ RequestRefresh(p, "manual")

\* C5: a forced refresh of a configured provider starts an adapter call when
\* none is in flight, inside the throttle window too; with one in flight it
\* starts none; and a forceRefresh promise settles only in a step in which
\* the call it awaits ends.
C5_ForceBypass ==
    [][ /\ (ForcedStep("acme") /\ IsConfigured(endpoints, "acme")) =>
            IF Defined(refreshInFlight["acme"])
            THEN Started = {}
            ELSE \E c \in Started : c.provider = "acme" /\ c.reason = "manual"
        /\ \A w \in waiters \ waiters' :
                w.api = "forceRefresh" => \E c \in Ended : c.id \in w.on
      ]_vars

\* A forced call is outstanding inside the throttle window of a refresh that
\* has just ended, and a forceRefresh has joined it.
C5_Witness ==
    /\ \E c \in calls : c.provider = "acme" /\ c.reason = "manual"
    /\ Defined(states["acme"])
    /\ Defined(Val(states["acme"]).lastRefreshAt)
    /\ now - Val(Val(states["acme"]).lastRefreshAt) < throttleWindowMs
    /\ \E w \in waiters : w.api = "forceRefresh" /\ w.joined

\* ---- C6
\* C6 as stated: the promise of a forceRefresh or forceRefreshAll that found a
\* refresh in flight resolves only once a new forced adapter call has been
\* issued after the outstanding one.
C6_AsStated ==
    [][\A w \in waiters \ waiters' :
            w.joined => \E c \in Started : c.reason = "manual"]_vars

\* C6: forceRefresh that finds a refresh of the provider in flight starts no
\* call and returns the promise of the outstanding one; that promise resolves
\* when the outstanding call ends, and the only call that step can start is
\* the trailing refresh of a post-request trigger.
C6_JoinsOutstanding ==
    [][ /\ (ForceRefresh("acme") /\ IsConfigured(endpoints, "acme")
                /\ Defined(refreshInFlight["acme"])) =>
            /\ Started = {}
            /\ \E w \in waiters' :
                    /\ w.api = "forceRefresh" /\ w.joined
                    /\ w.on = {Val(refreshInFlight["acme"])}
        /\ \A w \in waiters \ waiters' :
                w.joined =>
                    /\ \E c \in Ended : c.id \in w.on
                    /\ \A c \in Started : c.reason = "post-request-trailing"
      ]_vars

\* A forceRefresh awaits a call that a post-request trigger started.
C6_Witness ==
    \E w \in waiters :
        /\ w.api = "forceRefresh" /\ w.joined
        /\ \E c \in calls : c.id \in w.on /\ c.reason = "post-request-immediate"

\* ---- C7
\* C7: with the provider's state kept in between, two adapter calls caused by
\* non-forced events start at least one throttle window apart.
C7_NonForcedSpacing ==
    \A p \in Providers :
        (Defined(lastNonForcedAt[p]) /\ Defined(Val(lastNonForcedAt[p]).gap)) =>
            Val(Val(lastNonForcedAt[p]).gap) >= throttleWindowMs

\* ---- C8
\* C8: notifyChatRequestFinished with outcome cancelled starts no adapter
\* call, creates no state, touches no timer and changes no field of a state.
C8_CancelledIsFree ==
    [][NotifyChatRequestFinished("acme", "cancelled") =>
            UNCHANGED << states, configSignatures, refreshInFlight, trailingTimers,
                         periodicTimer, calls, waiters, persistWriting, persistQueued,
                         globalState >>]_vars

\* A cancelled request has just been reported where one that succeeded
\* would have set pendingTrailing.
C8_Witness ==
    /\ note = "cancelled"
    /\ Defined(states["acme"])
    /\ isWithinThrottleWindow(Val(states["acme"]), now, throttleWindowMs)
    /\ ~PendingTrailing(states, "acme")
    /\ IsConfigured(endpoints, "acme")

\* ---- C9
\* What saveState would write for the provider state st is the stored entry e.
SameAsStored(st, e) ==
    /\ JsonOptSnapshot(st.snapshot) = e.snapshot
    /\ JsonOptString(st.lastError) = e.lastError
    /\ JsonOptNumber(st.lastAttemptAt) = e.lastAttemptAt
    /\ JsonOptNumber(st.lastRefreshAt) = e.lastRefreshAt

\* C9: loadState gives every stored provider a state whose snapshot,
\* lastError, lastAttemptAt and lastRefreshAt are those that were saved, with
\* isRefreshing and pendingTrailing false.
C9_StateSurvivesRestart ==
    [][(Initialize /\ Defined(globalState)) =>
            \A p \in DOMAIN Val(globalState).providers :
                /\ Defined(loaded'[p])
                /\ SameAsStored(Val(loaded'[p]), Val(globalState).providers[p])
                /\ ~Val(loaded'[p]).isRefreshing
                /\ ~Val(loaded'[p]).pendingTrailing]_vars

\* ---- C10
\* C10: after a reconciliation pass, a snapshot or error shown for a provider
\* was obtained under the provider's present configuration signature.
C10_ReconcileInvalidates ==
    [][(Initialize \/ \E provider \in AnyConfig : ConfigChange("acme", provider)) =>
            \A p \in Providers :
                (/\ Defined(states'[p])
                 /\ \/ Defined(Val(states'[p]).snapshot)
                    \/ Defined(Val(states'[p]).lastError)
                 /\ IsConfigured(endpoints', p)
                 /\ Defined(dataSig'[p])) =>
                    Val(dataSig'[p]) = getProviderConfigSignature(Val(getProvider(endpoints', p)))
      ]_vars

\* ---- C11
\* C11: in every reachable state, an adapter call of a provider is
\* outstanding exactly when the provider has a state whose isRefreshing is
\* true.
C11_RefreshingIffOutstanding ==
    \A p \in Providers :
        (CallsOf(calls, p) # {}) <=>
            (Defined(states[p]) /\ Val(states[p]).isRefreshing)

\* ---- C12
C12_NoInactiveState ==
    \A p \in Providers :
        ~IsConfigured(endpoints, p) =>
            /\ ~Defined(states[p])
            /\ ~Defined(trailingTimers[p])

C12_NoInactiveCall ==
    \A p \in Providers :
        ~IsConfigured(endpoints', p) => \A c \in Started : c.provider # p

\* C12: after initialization, a trigger or a reconciliation, a provider that
\* is absent from the configuration or whose method is none has no state and
\* no trailing timer, a state loaded or left for it is discarded, and no
\* adapter call is started for it.
C12_InactiveTornDown == [](C12_NoInactiveState) /\ [][C12_NoInactiveCall]_vars

\* Initialization found a stored entry for a provider that is no longer
\* configured, and discarded it.
C12_Witness ==
    /\ Running
    /\ Defined(loaded["acme"])
    /\ ~IsConfigured(endpoints, "acme")
    /\ ~Defined(states["acme"])

\* ---- C13
\* The adapter call c ends by throwing.
Throws(c, result) == Defined(result.throws) /\ Complete(c, result)

\* the promises of forceRefresh / forceRefreshAll that awaited only c resolve
AwaitersResolve(c) ==
    \A w \in waiters :
        w.on = {c.id} => (w \notin waiters' /\ note' = "resolved")

FrameKept(p) ==
    /\ Val(states'[p]).snapshot = Val(states[p]).snapshot
    /\ Val(states'[p]).lastRefreshAt = Val(states[p]).lastRefreshAt

\* C13 as stated: when the adapter call of a provider throws, the provider's
\* state has isRefreshing false, lastError equal to the exception message,
\* snapshot and lastRefreshAt as before, refreshInFlight has no entry for the
\* provider, and the awaiting forceRefresh / forceRefreshAll promise resolves.
C13_AsStated ==
    [][\A c \in Ended : \A result \in ResultKinds(now) :
            Throws(c, result) =>
                /\ Defined(states[c.provider]) /\ Defined(states'[c.provider])
                /\ ~Val(states'[c.provider]).isRefreshing
                /\ Val(states'[c.provider]).lastError = result.throws
                /\ FrameKept(c.provider)
                /\ ~Defined(refreshInFlight'[c.provider])
                /\ AwaitersResolve(c)]_vars

\* C13: when the adapter call of a provider throws and the provider's state
\* was not discarded during the call, lastError becomes the exception message,
\* snapshot and lastRefreshAt stay as they were, the call's refreshInFlight
\* entry is removed and the awaiting promise resolves; isRefreshing is false
\* and refreshInFlight empty unless the pending trailing refresh starts in the
\* same task.
C13_ThrowAbsorbed ==
    [][\A c \in Ended : \A result \in ResultKinds(now) :
            (Throws(c, result) /\ c.attached) =>
                /\ Defined(states[c.provider]) /\ Defined(states'[c.provider])
                /\ Val(states'[c.provider]).lastError = result.throws
                /\ FrameKept(c.provider)
                /\ refreshInFlight'[c.provider] # Some(c.id)
                /\ AwaitersResolve(c)
                /\ IF Started = {}
                   THEN /\ ~Val(states'[c.provider]).isRefreshing
                        /\ ~Defined(refreshInFlight'[c.provider])
                   ELSE \A d \in Started :
                            /\ d.reason = "post-request-trailing"
                            /\ PendingTrailing(states, c.provider)
                            /\ refreshInFlight'[c.provider] = Some(d.id)]_vars

\* A forced refresh that was awaited has just thrown over an earlier snapshot.
C13_Witness ==
    /\ note = "resolved"
    /\ Defined(states["acme"])
    /\ Val(states["acme"]).lastError = Some("network error")
    /\ Defined(Val(states["acme"]).snapshot)
    /\ Defined(Val(states["acme"]).lastRefreshAt)
    /\ ~Val(states["acme"]).isRefreshing
    /\ ~Defined(refreshInFlight["acme"])

\* ---- C14
\* The adapter call c ends with a BalanceRefreshResult.
Returns(c, result) == ~Defined(result.throws) /\ Complete(c, result)

ResultRecorded(p, result) ==
    /\ Defined(states[p]) /\ Defined(states'[p])
    /\ IF result.success /\ Defined(result.snapshot)
       THEN /\ Val(states'[p]).snapshot = result.snapshot
            /\ Val(states'[p]).lastError = Undefined
            /\ Val(states'[p]).lastRefreshAt = Some(now)
       ELSE /\ Val(states'[p]).lastError =
                    (IF Defined(result.error) THEN result.error
                     ELSE Some("Balance refresh failed."))
            /\ FrameKept(p)

\* C14 as stated: a result with success and a snapshot stores the snapshot,
\* clears lastError and sets lastRefreshAt; any other result sets lastError to
\* the adapter's message, or to the fallback text when there is none, and
\* leaves snapshot and lastRefreshAt as they were.
C14_AsStated ==
    [][\A c \in Ended : \A result \in ResultKinds(now) :
            Returns(c, result) => ResultRecorded(c.provider, result)]_vars

\* C14: the same, for a call during which the provider's state was not
\* discarded; the result of a call whose state was discarded changes no
\* field of the provider's present state.
C14_ResultRecorded ==
    [][\A c \in Ended : \A result \in ResultKinds(now) :
            Returns(c, result) =>
                IF c.attached
                THEN ResultRecorded(c.provider, result)
                ELSE Started = {} => states'[c.provider] = states[c.provider]]_vars

\* A refresh has just failed without a message of its own, over the snapshot of
\* an earlier success.
C14_Witness ==
    /\ Defined(states["acme"])
    /\ Val(states["acme"]).lastError = Some("Balance refresh failed.")
    /\ Defined(Val(states["acme"]).snapshot)
    /\ Defined(Val(states["acme"]).lastRefreshAt)
    /\ Val(Val(states["acme"]).lastAttemptAt) > Val(Val(states["acme"]).lastRefreshAt)

\* ---- C15
\* the latest of the recorded times of a state, if any is recorded
Recorded(st) ==
    (IF Defined(st.lastAttemptAt) THEN {Val(st.lastAttemptAt)} ELSE {})
    \cup (IF Defined(st.lastRefreshAt) THEN {Val(st.lastRefreshAt)} ELSE {})
    \cup (IF Defined(st.snapshot) THEN {Val(st.snapshot).updatedAt} ELSE {})

DueAsStated(state, t, interval) ==
    IF ~Defined(state) THEN TRUE
    ELSE /\ ~Val(state).isRefreshing
         /\ \/ Recorded(Val(state)) = {}
            \/ \A r \in Recorded(Val(state)) : t - r >= interval

\* C15: the reconciliation that ends initialize requests a non-forced
\* refresh of an active provider exactly when the provider is not refreshing
\* and none of lastAttemptAt, lastRefreshAt, snapshot.updatedAt is recorded or
\* the latest of them is at least the refresh interval old; the request
\* starts an adapter call unless lastAttemptAt is inside the throttle window.
C15_DueOnReconcile ==
    [][Initialize =>
        \A p \in ActiveNames(endpoints) :
            (\E c \in Started : c.provider = p) <=>
                /\ DueAsStated(loaded'[p], now, refreshIntervalMs)
                /\ ~(/\ Defined(loaded'[p])
                      /\ isWithinThrottleWindow(Val(loaded'[p]), now, throttleWindowMs))]_vars

\* ---- C16
\* The provider leaves the configuration or its method becomes none.
Disappears(p) ==
    /\ IsConfigured(endpoints, p)
    /\ \E provider \in {Undefined, Some(CfgNone)} : ConfigChange(p, provider)

\* C16: the reconciliation that follows the disappearance of a provider
\* deletes its state, cancels its trailing timer, starts no adapter call and
\* fires onDidUpdate with its name; and a trailing-timer callback only ever
\* runs for a provider that is configured.
C16_DisappearanceClears ==
    [][ /\ Disappears("acme") =>
            /\ ~Defined(states'["acme"])
            /\ ~Defined(trailingTimers'["acme"])
            /\ "acme" \in fired'
            /\ Started = {}
        /\ TrailingTimerFire("acme") => IsConfigured(endpoints, "acme")
      ]_vars

\* The provider has just disappeared while a call for it was outstanding;
\* its state is gone and listeners were told.
C16_Witness ==
    /\ Running
    /\ ~IsConfigured(endpoints, "acme")
    /\ fired = {"acme"}
    /\ ~Defined(states["acme"])
    /\ \E c \in calls : c.provider = "acme" /\ ~c.attached

\* ---- C17
\* what the next loadState would restore from the store
Restorable(store) == loadState(store)

C17_TornDown ==
    phase = "disposed" =>
        /\ periodicTimer = Undefined
        /\ \A p \in Providers :
                /\ ~Defined(trailingTimers[p])
                /\ ~Defined(refreshInFlight[p])

\* a write that was started after dispose ends
LateWriteEnds ==
    \/ Defined(persistWriting) /\ Val(persistWriting).late /\ PersistFinish(TRUE)
    \/ orphanChains # << >> /\ Head(orphanChains).writing.late /\ OrphanFinish(TRUE)

C17_LateCompletionDiscarded ==
    /\ (phase = "disposed" /\ Ended # {}) =>
            /\ states' = states
            /\ fired' = {}
    /\ seen' = NoneSeen
    /\ LateWriteEnds => Restorable(globalState') = Restorable(globalState)

WritesInProgress ==
    (IF Defined(persistWriting) THEN 1 ELSE 0) + Len(orphanChains)

\* C18: at most one globalState.update is in progress at any time.
C18_WritesSerialized == WritesInProgress <= 1

\* ---- C19
WriteFails == Defined(persistWriting) /\ PersistFinish(FALSE)

\* C19: a globalState.update that fails changes neither the provider states
\* nor anything a caller awaits, leaves the store as it was, is not started
\* again, and the saveState queued behind it starts next; no queued
\* saveState is ever left without a running one before it.
C19_FailedWriteSwallowed ==
    /\ [](~Defined(persistWriting) => persistQueued = 0)
    /\ [][WriteFails =>
            /\ UNCHANGED << states, configSignatures, refreshInFlight, trailingTimers,
                            periodicTimer, calls, waiters, phase, globalState >>
            /\ IF persistQueued = 0
               THEN ~Defined(persistWriting')
               ELSE /\ persistWriting' = Some(NewWrite(states, dataSig))
                    /\ persistQueued' = persistQueued - 1]_vars

\* A write has just failed: the store lags behind the states and nothing
\* is being written.
C19_Witness ==
    /\ note = "write failed"
    /\ ~Defined(persistWriting)
    /\ Defined(states["acme"])
    /\ globalState # Some(saveState(states))

\* ---- C20
ValidString(raw) == Defined(raw) /\ Val(raw).type = "string"
ValidTimestamp(raw) == Defined(raw) /\ Val(raw).type = "number" /\ Val(raw).num >= 0
ValidSnapshot(raw) ==
    /\ Defined(raw) /\ Val(raw).type = "object"
    /\ ValidString(Val(raw).summary)
    /\ ValidTimestamp(Val(raw).updatedAt)

\* the entry has at least one field that can be used
Usable(entry) ==
    /\ entry.isRecord
    /\ \/ ValidSnapshot(entry.snapshot)
       \/ ValidString(entry.lastError)
       \/ ValidTimestamp(entry.lastAttemptAt)
       \/ ValidTimestamp(entry.lastRefreshAt)

\* st holds the valid fields of entry and nothing else
HoldsValidFields(st, entry) ==
    /\ ~st.isRefreshing /\ ~st.pendingTrailing
    /\ st.lastError = (IF ValidString(entry.lastError)
                       THEN Some(Val(entry.lastError).str) ELSE Undefined)
    /\ st.lastAttemptAt = (IF ValidTimestamp(entry.lastAttemptAt)
                           THEN Some(Val(entry.lastAttemptAt).num) ELSE Undefined)
    /\ st.lastRefreshAt = (IF ValidTimestamp(entry.lastRefreshAt)
                           THEN Some(Val(entry.lastRefreshAt).num) ELSE Undefined)
    /\ Defined(st.snapshot) = ValidSnapshot(entry.snapshot)
    /\ Defined(st.snapshot) =>
            /\ Val(st.snapshot).summary = Val(Val(entry.snapshot).summary).str
            /\ Val(st.snapshot).updatedAt = Val(Val(entry.snapshot).updatedAt).num
            /\ Len(Val(st.snapshot).details) =
                    Cardinality({j \in DOMAIN Val(entry.snapshot).details.items :
                                    /\ Val(entry.snapshot).details.isArray
                                    /\ Val(entry.snapshot).details.items[j].type = "string"})
            /\ \A i \in DOMAIN Val(st.snapshot).details :
                    \E j \in DOMAIN Val(entry.snapshot).details.items :
                        /\ Val(entry.snapshot).details.items[j].type = "string"
                        /\ Val(entry.snapshot).details.items[j].str
                                = Val(st.snapshot).details[i]

\* C20: whatever the store holds, initialize completes; a value that is
\* absent, of another version, or whose providers field is not a record loads
\* nothing; an entry that is not a record or has no valid field is skipped; a
\* usable entry is loaded with exactly its valid fields, whatever the other
\* entries are.
C20_MalformedTolerated ==
    [][Initialize =>
        /\ phase' = "running"
        /\ \A p \in Providers :
            IF /\ Defined(globalState)
               /\ Val(globalState).version = STATE_VERSION
               /\ Val(globalState).providersIsRecord
               /\ p \in DOMAIN Val(globalState).providers
               /\ Usable(Val(globalState).providers[p])
            THEN /\ Defined(loaded'[p])
                 /\ HoldsValidFields(Val(loaded'[p]), Val(globalState).providers[p])
            ELSE ~Defined(loaded'[p])]_vars

\* acme's entry was loaded without its invalid lastAttemptAt although
\* beta's entry is not a record.
C20_Witness ==
    /\ Running
    /\ Defined(globalState)
    /\ DOMAIN Val(globalState).providers = Providers
    /\ ~Val(globalState).providers["beta"].isRecord
    /\ Val(globalState).providers["acme"].lastAttemptAt = Some(JsonNumber(0 - 1))
    /\ Defined(loaded["acme"])
    /\ ~Defined(Val(loaded["acme"]).lastAttemptAt)
    /\ Defined(Val(loaded["acme"]).lastError)
    /\ ~Defined(loaded["beta"])

\* ---- C21
NotAvailable == Some("Balance provider is not available.")

\* the provider is configured with a method for which no adapter exists
Adapterless(eps, p) ==
    /\ IsConfigured(eps, p)
    /\ ~Defined(createProvider(Val(getProvider(eps, p))))

\* C21: an attempt for a provider without adapter leaves lastError at the
\* fixed text with isRefreshing false, and while the configuration stays as
\* it is no periodic tick makes another attempt for the provider.
C21_NoAdapterNoRetry ==
    /\ [](\A p \in Providers :
            (Adapterless(endpoints, p) /\ Defined(states[p])
                    /\ Defined(Val(states[p]).lastAttemptAt)) =>
                /\ ~Val(states[p]).isRefreshing
                /\ Val(states[p]).lastError = NotAvailable)
    /\ [][\A p \in Providers :
            (/\ PeriodicTick
             /\ Adapterless(endpoints, p)
             /\ Defined(states[p])
             /\ Val(states[p]).lastError = NotAvailable) =>
                states'[p] = states[p]]_vars

\* ---- C22
\* the forceRefreshAll promise w is no longer pending after the step
Settled(w) ==
    ~\E v \in waiters' : v.api = w.api /\ v.count = w.count /\ v.on \subseteq w.on

C22_IssuedTogether ==
    ForceRefreshAll =>
        /\ \A p \in Providers :
                IF IsConfigured(endpoints, p)
                THEN Cardinality(CallsOf(calls', p)) = 1
                ELSE CallsOf(calls', p) = CallsOf(calls, p) /\ states'[p] = states[p]
        /\ \A c \in Started : c.reason = "manual"
        /\ ActiveNames(endpoints) # {} =>
                \E w \in waiters' :
                    /\ w.api = "forceRefreshAll"
                    /\ w.count = Cardinality(ActiveNames(endpoints))
                    /\ w.on = {c.id : c \in {d \in calls' : IsConfigured(endpoints, d.provider)}}

C22_WaitsForAll ==
    \A w \in waiters :
        (w.api = "forceRefreshAll" /\ Settled(w)) =>
            /\ Ended # {}
            /\ \A c \in calls' : c.id \notin w.on

\* C22: forceRefreshAll leaves one adapter call outstanding for every
\* provider with a configured balance method and touches no other provider;
\* its promise stays pending while any of these calls is outstanding and is
\* settled by the end of the last of them; the number it returns is the
\* number of providers with a configured method.
C22_ForceRefreshAll ==
    /\ [](\A w \in waiters :
            /\ w.on # {}
            /\ \A i \in w.on : \E c \in calls : c.id = i)
    /\ [][C22_IssuedTogether /\ C22_WaitsForAll]_vars

\* forceRefreshAll awaits the calls of two providers, both outstanding.
C22_Witness ==
    \E w \in waiters :
        /\ w.api = "forceRefreshAll"
        /\ w.count = 2
        /\ Cardinality(w.on) = 2
        /\ \A p \in Providers : \E c \in calls : c.provider = p /\ c.id \in w.on

\* ---- C23
\* The step changed what getProviderState(p) returns: a field of p's state
\* changed or the state was deleted.  A state created blank by ensureState
\* reads as before to every field the claim names.
StateMutated(p) ==
    /\ states'[p] # states[p]
    /\ ~(Undefined = states[p] /\ states'[p] = Some(NewState))

\* C23: a step of the coordinator in service (initialized, not disposed by
\* the step) that changes a provider's state (start or completion of an
\* attempt, pendingTrailing set or cleared, state deleted) delivers
\* onDidUpdate with that provider's name, and the last such notification of
\* the step comes after the last change: its listeners read the state the
\* step leaves.  An attempt started by initialize() itself is notified too.
C23_MutationNotified ==
    [][\A p \in Providers :
            /\ (phase = "running" /\ phase' = "running" /\ StateMutated(p)) =>
                    (p \in fired' /\ seen'[p] = Some(states'[p]))
            /\ (Initialize /\ Defined(states'[p]) /\ Val(states'[p]).isRefreshing) =>
                    (p \in fired' /\ seen'[p] = Some(states'[p]))]_vars

\* a throttled post-request trigger has just set pendingTrailing, and the
\* listeners were told
C23_Witness ==
    /\ "acme" \in fired
    /\ PendingTrailing(states, "acme")
    /\ Val(states["acme"]).lastRequestEndAt = Some(now)
    /\ seen["acme"] = Some(states["acme"])

\* ---- C24
TrailingReason == "post-request-trailing"

\* an adapter call of a provider ends while the provider's state has
\* pendingTrailing set
C24_DueAfterCompletion ==
    \A c \in Ended :
        (phase' = "running" /\ PendingTrailing(states, c.provider)) =>
            LET p == c.provider
                st == Val(states[p])
                due == Val(st.lastRequestEndAt) + throttleWindowMs
            IN  /\ Defined(st.lastRequestEndAt)
                /\ IF due <= now
                   THEN /\ \E d \in Started : d.provider = p /\ d.reason = TrailingReason
                        /\ ~PendingTrailing(states', p)
                   ELSE /\ Started = {}
                        /\ trailingTimers'[p] = Some(due)
                        /\ PendingTrailing(states', p)

C24_NeverEarly ==
    \A c \in Started :
        c.reason = TrailingReason =>
            /\ PendingTrailing(states, c.provider)
            /\ Defined(Val(states[c.provider]).lastRequestEndAt)
            /\ now >= Val(Val(states[c.provider]).lastRequestEndAt) + throttleWindowMs

\* The scenario of the specification, with the window W of the model: an
\* attempt made at 0 has succeeded at 2, a post-request trigger came at 1
\* in between and is still pending.
ScenarioPending(p) ==
    /\ PendingTrailing(states, p)
    /\ Val(states[p]).lastAttemptAt = Some(0)
    /\ Val(states[p]).lastRequestEndAt = Some(1)
    /\ Val(states[p]).lastRefreshAt = Some(2)

C24_Scenario ==
    \A p \in Providers :
        ScenarioPending(p) =>
            /\ trailingTimers[p] = Some(1 + throttleWindowMs)
            /\ CallsOf(calls, p) = {}

C24_ScenarioOnce ==
    \A p \in Providers :
        (ScenarioPending(p) /\ TrailingTimerFire(p)) =>
            /\ now = 1 + throttleWindowMs
            /\ Cardinality(Started) = 1
            /\ \A c \in Started : c.provider = p /\ c.reason = TrailingReason
            /\ ~PendingTrailing(states', p)
            /\ trailingTimers'[p] = Undefined

\* C24: when an adapter call ends with pendingTrailing set, the trailing
\* refresh starts at once if lastRequestEndAt + W has passed, otherwise the
\* provider's timer is set to lastRequestEndAt + W and nothing starts; no
\* trailing refresh starts before lastRequestEndAt + W; in the scenario the
\* timer is due at 1 + W and, no other trigger arriving, fires at 1 + W and
\* starts one call, the trailing refresh, leaving nothing pending and no
\* timer.
C24_TrailingDue ==
    /\ [](C24_Scenario)
    /\ [][C24_DueAfterCompletion /\ C24_NeverEarly /\ C24_ScenarioOnce]_vars

\* the trailing refresh of the scenario is outstanding, started at 1 + W
C24_Witness ==
    /\ now = 1 + throttleWindowMs
    /\ \E c \in calls : c.provider = "acme" /\ c.reason = TrailingReason
    /\ Defined(states["acme"])
    /\ Val(states["acme"]).lastAttemptAt = Some(now)
    /\ Val(states["acme"]).lastRefreshAt = Some(2)
    /\ burst["acme"] = [n |-> 1, calls |-> 1]

\* ---- C25
\* the flags of a pending trailing request are cleared in p's state
FlagsCleared(p) ==
    /\ Defined(states'[p])
    /\ ~Val(states'[p]).pendingTrailing
    /\ Val(states'[p]).lastRequestEndAt = Undefined

\* flushTrailingRefresh run on the present state with p taken out of the
\* configuration store (a state the manager is in only between the store's
\* change and its onDidChange): flags cleared, p notified, no call started.
C25_Unconfigured ==
    \A p \in Providers :
        (PendingTrailing(states, p) /\ ~Defined(refreshInFlight[p])) =>
            LET m == flushTrailingRefresh([Context EXCEPT !.eps[p] = Undefined], p)
            IN  /\ m.calls = calls
                /\ m.inFlight = refreshInFlight
                /\ m.states[p] = Some([Val(states[p]) EXCEPT
                                        !.pendingTrailing = FALSE,
                                        !.lastRequestEndAt = Undefined])
                /\ m.fired = {p}

\* C25: when the trailing timer of p fires, then (1) with pendingTrailing
\* not set nothing but the timer entry changes; (2) with a refresh of p in
\* flight no call starts and the state, pendingTrailing included, stays;
\* (3) otherwise the flags are cleared and, p being configured, exactly one
\* adapter call starts, for p, with the configuration p has at that moment,
\* whether or not the throttle window has passed (p not configured: no call
\* starts).
C25_TimerFires ==
    /\ [](C25_Unconfigured)
    /\ [][\A p \in Providers :
           TrailingTimerFire(p) =>
               /\ trailingTimers'[p] = Undefined \/ Started # {}
               /\ IF ~PendingTrailing(states, p)
                  THEN /\ Started = {}
                       /\ states' = states /\ calls' = calls
                       /\ refreshInFlight' = refreshInFlight
                       /\ fired' = {}
                  ELSE IF Defined(refreshInFlight[p])
                  THEN /\ Started = {}
                       /\ states' = states /\ calls' = calls
                       /\ PendingTrailing(states', p)
                  ELSE IF ~IsConfigured(endpoints, p)
                  THEN FlagsCleared(p) /\ Started = {}
                  ELSE /\ FlagsCleared(p)
                       /\ Cardinality(Started) = 1
                       /\ \A c \in Started :
                               /\ c.provider = p
                               /\ c.reason = TrailingReason
                               /\ c.config = Val(getProvider(endpoints, p))
                       /\ Val(states'[p]).isRefreshing
                       /\ Val(states'[p]).lastAttemptAt = Some(now)]_vars

\* the timer has fired less than W after the start of the previous adapter
\* call and the trailing refresh is outstanding; it uses the settings as
\* edited since the manager started
C25_Witness ==
    /\ \E c \in calls : /\ c.provider = "acme" /\ c.reason = TrailingReason
                         /\ c.config = CfgACosmetic
    /\ Defined(states["acme"])
    /\ Val(states["acme"]).lastAttemptAt = Some(now)
    /\ Defined(lastNonForcedAt["acme"])
    /\ Val(lastNonForcedAt["acme"]).at = now
    /\ Defined(Val(lastNonForcedAt["acme"]).gap)
    /\ Val(Val(lastNonForcedAt["acme"]).gap) < throttleWindowMs
    /\ ~PendingTrailing(states, "acme")

\* ---- C26
\* p is configured and its state is inside the throttle window at now
Throttled(p) ==
    /\ IsConfigured(endpoints, p)
    /\ Defined(states[p])
    /\ isWithinThrottleWindow(Val(states[p]), now, throttleWindowMs)

\* C26: a post-request trigger (outcome success or error) at time t for a
\* provider inside its throttle window changes of the provider's state
\* only pendingTrailing, to true, and lastRequestEndAt, to t; it starts and
\* ends no adapter call, notifies the listeners, and leaves the provider's
\* timer due at t + W whatever timer was set before.
C26_ThrottledTrigger ==
    [][\A p \in Providers :
        (Throttled(p) /\ \E outcome \in {"success", "error"} :
                            NotifyChatRequestFinished(p, outcome)) =>
            /\ states'[p] = Some([Val(states[p]) EXCEPT
                                    !.pendingTrailing = TRUE,
                                    !.lastRequestEndAt = Some(now)])
            /\ calls' = calls
            /\ refreshInFlight' = refreshInFlight
            /\ trailingTimers'[p] = Some(now + throttleWindowMs)
            /\ p \in fired']_vars

\* a second throttled trigger has moved the request and the timer; no call
\* is outstanding
C26_Witness ==
    /\ Throttled("acme")
    /\ burst["acme"] = [n |-> 2, calls |-> 0]
    /\ Val(states["acme"]).pendingTrailing
    /\ Val(states["acme"]).lastRequestEndAt = Some(now)
    /\ Val(states["acme"]).lastAttemptAt # Some(now)
    /\ trailingTimers["acme"] = Some(now + throttleWindowMs)
    /\ calls = {}
    /\ fired = {"acme"}

\* ---- C27
\* a non-forced refresh of p would invoke the adapter now
Eligible(p) ==
    /\ IsConfigured(endpoints, p)
    /\ ~Defined(refreshInFlight[p])
    /\ ~(Defined(states[p]) /\ isWithinThrottleWindow(Val(states[p]), now, throttleWindowMs))

C27_Tick ==
    PeriodicTick =>
        /\ \A p \in Providers :
                /\ (\E c \in Started : c.provider = p) <=> Eligible(p)
                /\ PendingTrailing(states', p) = PendingTrailing(states, p)
                /\ ~IsConfigured(endpoints, p) => states'[p] = states[p]
                /\ (Defined(states[p]) /\ Defined(states'[p])) =>
                        Val(states'[p]).lastRequestEndAt = Val(states[p]).lastRequestEndAt
        /\ \A c \in Started : c.reason = "periodic"
        /\ Cardinality(Started) <= Cardinality(Providers)
        /\ trailingTimers' = trailingTimers

C27_OneTimer ==
    Running =>
        /\ Defined(periodicTimer)
        /\ Val(periodicTimer).live = 1
        /\ Val(periodicTimer).interval = refreshIntervalMs

\* C27: a periodic tick starts an adapter call, with reason periodic, for
\* exactly the configured providers that have no refresh in flight and are
\* outside the throttle window; it changes neither pendingTrailing nor
\* lastRequestEndAt nor any trailing timer; and while the manager runs,
\* whatever configuration changes it has seen, one interval timer exists,
\* set with the interval now configured.
C27_PeriodicPath == [](C27_OneTimer) /\ [][C27_Tick]_vars

\* the interval was edited, the timer restarted with it, and a tick has
\* started a call while a trailing request stays pending
C27_Witness ==
    /\ Running
    /\ refreshIntervalMs # RefreshInterval
    /\ Val(periodicTimer).interval = refreshIntervalMs
    /\ \E c \in calls : c.provider = "acme" /\ c.reason = "periodic"
    /\ PendingTrailing(states, "acme")
    /\ Defined(trailingTimers["acme"])

\* ---- C28
\* The configuration change of this step gives p, which stays configured
\* with a balance method, another config signature than the one its state
\* was made under.
SignatureChanged(p) ==
    /\ \E provider \in SchedulerConfigs : ConfigChange(p, provider)
    /\ Defined(configSignatures[p])
    /\ IsConfigured(endpoints', p)
    /\ getProviderConfigSignature(Val(getProvider(endpoints', p))) # Val(configSignatures[p])

\* C28: a reconciliation that discards the state of a still-configured
\* provider because its config signature changed leaves, at its end, an
\* adapter call for the provider that was issued with the provider's new
\* configuration, also when a call issued under the old configuration is
\* outstanding.
C28_FreshAfterSignatureChange ==
    [][\A p \in Providers :
        SignatureChanged(p) =>
            \E c \in calls' :
                /\ c.provider = p
                /\ c.config = Val(getProvider(endpoints', p))]_vars

\* The same with no adapter call of the provider outstanding at the change.
C28_FreshWhenIdle ==
    [][\A p \in Providers :
        (SignatureChanged(p) /\ ~Defined(refreshInFlight[p])) =>
            /\ \E c \in Started :
                    /\ c.provider = p
                    /\ c.reason = "ui"
                    /\ c.config = Val(getProvider(endpoints', p))
                    /\ c.attached
            /\ Defined(states'[p])
            /\ Val(states'[p]).lastAttemptAt = Some(now)
            /\ Val(states'[p]).snapshot = Undefined
            /\ Val(states'[p]).lastError = Undefined]_vars

\* ---- C29
\* C29: when an adapter call ends whose provider's state was discarded by
\* a reconciliation while the call was outstanding, the provider's current
\* state (none, or the one made since) keeps its snapshot, lastError and
\* lastRefreshAt, and the globalState write the completion starts holds the
\* current states, not the call's result.
C29_StaleResultDropped ==
    [][\A c \in Ended :
        (~c.attached /\ phase' = "running") =>
            LET p == c.provider
            IN  /\ Defined(states'[p]) = Defined(states[p])
                /\ Defined(states[p]) =>
                        /\ Val(states'[p]).snapshot = Val(states[p]).snapshot
                        /\ Val(states'[p]).lastError = Val(states[p]).lastError
                        /\ Val(states'[p]).lastRefreshAt = Val(states[p]).lastRefreshAt
                /\ Defined(persistWriting')
                /\ Val(persistWriting').data = saveState(states')]_vars

\* the call made under the old configuration has ended; the state made
\* since the change is as blank as before, and is being written
C29_Witness ==
    /\ endpoints["acme"] = Some(CfgB)
    /\ states["acme"] = Some(NewState)
    /\ calls = {}
    /\ refreshInFlight["acme"] = Undefined
    /\ fired = {"acme"}
    /\ seen["acme"] = Some(states["acme"])
    /\ Defined(persistWriting)
    /\ Val(persistWriting).data = saveState(states)

\* ---- C30
\* C30: in every state the manager is in between two tasks, a provider
\* whose state has pendingTrailing set has a trailing timer pending or a
\* refresh in flight, whose adapter call is outstanding.
C30_PendingIsServed ==
    \A p \in Providers :
        PendingTrailing(states, p) =>
            \/ Defined(trailingTimers[p])
            \/ /\ Defined(refreshInFlight[p])
               /\ CallsOf(calls, p) # {}

\* the trailing timer has fired while the refresh was in flight: the
\* request is pending with no timer left, past its due time
C30_Witness ==
    /\ PendingTrailing(states, "acme")
    /\ trailingTimers["acme"] = Undefined
    /\ Defined(refreshInFlight["acme"])
    /\ now >= Val(Val(states["acme"]).lastRequestEndAt) + throttleWindowMs

\* ---- C31
\* the step changed snapshot, lastError, lastAttemptAt or lastRefreshAt of
\* p's state (a missing state reads as a blank one), or deleted the state
PersistedFieldsChanged(p) ==
    \/ Defined(states[p]) /\ ~Defined(states'[p])
    \/ /\ Defined(states'[p])
       /\ LET old == IF Defined(states[p]) THEN Val(states[p]) ELSE NewState
              new == Val(states'[p])
          IN  \/ new.snapshot # old.snapshot
              \/ new.lastError # old.lastError
              \/ new.lastAttemptAt # old.lastAttemptAt
              \/ new.lastRefreshAt # old.lastRefreshAt

\* the step put a saveState on persistChain: it started, or waits
PersistQueued ==
    \/ ~Defined(persistWriting) /\ Defined(persistWriting')
    \/ persistQueued' > persistQueued

\* the provider entries the store holds
Stored == IF Defined(globalState) THEN Val(globalState).providers ELSE << >>

\* no write is in progress or queued and the store has, for every provider
\* whose state has one of the four fields set, the four fields as they are
\* (in their JSON form), and no other entry
StoreSynced ==
    /\ ~Defined(persistWriting)
    /\ persistQueued = 0
    /\ \A p \in Providers :
            IF /\ Defined(states[p])
               /\ \/ Defined(Val(states[p]).snapshot)
                  \/ Defined(Val(states[p]).lastError)
                  \/ Defined(Val(states[p]).lastAttemptAt)
                  \/ Defined(Val(states[p]).lastRefreshAt)
            THEN /\ p \in DOMAIN Stored
                 /\ Stored[p].isRecord
                 /\ SameAsStored(Val(states[p]), Stored[p])
            ELSE p \notin DOMAIN Stored

C31_PersistAfterMutation ==
    /\ (phase = "running" /\ \E p \in Providers : PersistedFieldsChanged(p)) => PersistQueued
    /\ (Defined(persistWriting') /\ persistWriting' # persistWriting) =>
            Val(persistWriting').data = saveState(states')

\* C31: a step of the running manager that changes snapshot, lastError,
\* lastAttemptAt or lastRefreshAt of a state, or deletes a state, queues a
\* saveState; a write that starts holds the states as they are then;
\* whenever the chain is idle the store holds the four fields of every
\* state and no entry of a deleted provider; and a write in progress leads
\* to such a state.
C31_StoreFollows ==
    /\ []((phase = "running" /\ ~Defined(persistWriting)) => StoreSynced)
    /\ [][C31_PersistAfterMutation]_vars
    /\ (Defined(persistWriting) ~> StoreSynced)

\* the provider was removed while a write was in progress; the chain has
\* drained and the store, written before with the provider's entry, holds
\* none
C31_Witness ==
    /\ phase = "running"
    /\ StoreSynced
    /\ endpoints["acme"] = Undefined
    /\ states["acme"] = Undefined
    /\ Defined(globalState)
    /\ Stored = << >>
    /\ events = MaxEvents

\* ---- C32
\* lastAttemptAt ?? lastRefreshAt ?? snapshot.updatedAt of a restored state
Checkpoint(st) ==
    IF Defined(st.lastAttemptAt) THEN st.lastAttemptAt
    ELSE IF Defined(st.lastRefreshAt) THEN st.lastRefreshAt
    ELSE IF Defined(st.snapshot) THEN Some(Val(st.snapshot).updatedAt)
    ELSE Undefined

\* before initialize nothing of the manager is installed
C32_NothingBefore ==
    phase = "constructed" =>
        /\ periodicTimer = Undefined
        /\ calls = {}
        /\ \A p \in Providers : states[p] = Undefined /\ trailingTimers[p] = Undefined

C32_FirstPass ==
    Initialize =>
        /\ loaded' = loadState(globalState)
        /\ periodicTimer' = Some([interval |-> refreshIntervalMs,
                                  dueAt |-> now + refreshIntervalMs, live |-> 1])
        /\ \A p \in Providers :
            Defined(loaded'[p]) =>
                LET st == Val(loaded'[p])
                    started == \E c \in Started : c.provider = p
                IN  IF IsConfigured(endpoints, p)
                    THEN /\ Defined(states'[p])
                         /\ Val(states'[p]).snapshot = st.snapshot
                         /\ Val(states'[p]).lastError = st.lastError
                         /\ Val(states'[p]).lastRefreshAt = st.lastRefreshAt
                         /\ IF started
                            THEN states'[p] = Some([st EXCEPT !.isRefreshing = TRUE,
                                                             !.lastAttemptAt = Some(now)])
                            ELSE states'[p] = loaded'[p]
                         /\ (Defined(Checkpoint(st))
                                /\ now - Val(Checkpoint(st)) < refreshIntervalMs) => ~started
                    ELSE /\ states'[p] = Undefined
                         /\ ~started
                         /\ p \in fired'
                         /\ PersistQueued

\* C32: initialize installs the periodic timer and starts no call before
\* the stored state is loaded; its first reconciliation pass works on the
\* loaded states: the state of a provider that is still configured is kept
\* (with an attempt started on it, or untouched; untouched when its
\* checkpoint is less than P old), the state of a provider that is not
\* configured is deleted, notified and the deletion persisted.
C32_LoadThenReconcile == [](C32_NothingBefore) /\ [][C32_FirstPass]_vars

\* a second lifetime has started less than P after the last attempt: the
\* restored state is in memory as loaded and no call was started
C32_Witness ==
    /\ phase = "running"
    /\ Defined(globalState)
    /\ Defined(loaded["acme"])
    /\ states["acme"] = loaded["acme"]
    /\ Defined(Val(states["acme"]).lastAttemptAt)
    /\ now - Val(Val(states["acme"]).lastAttemptAt) < refreshIntervalMs
    /\ IsConfigured(endpoints, "acme")
    /\ calls = {}
    /\ periodicTimer = Some([interval |-> refreshIntervalMs,
                             dueAt |-> now + refreshIntervalMs, live |-> 1])

\* ---- C33
\* st has pendingTrailing set exactly when it has a lastRequestEndAt
FlagsAgree(st) == st.pendingTrailing <=> Defined(st.lastRequestEndAt)

\* C33: in every state of the manager, every provider state has
\* pendingTrailing true exactly when lastRequestEndAt is defined; a state
\* as ensureState makes it, a state as loaded, and the state the next
\* loadState would restore from the store have neither.
C33_FlagsTogether ==
    /\ \A p \in Providers :
        /\ Defined(states[p]) => FlagsAgree(Val(states[p]))
        /\ Defined(loaded[p]) =>
                /\ ~Val(loaded[p]).pendingTrailing
                /\ Val(loaded[p]).lastRequestEndAt = Undefined
        /\ Defined(Restorable(globalState)[p]) =>
                /\ ~Val(Restorable(globalState)[p]).pendingTrailing
                /\ Val(Restorable(globalState)[p]).lastRequestEndAt = Undefined
    /\ ~NewState.pendingTrailing
    /\ NewState.lastRequestEndAt = Undefined

\* a trailing request was set and has been served: both fields are unset
\* again while the call it started is outstanding and stored
C33_Witness ==
    /\ burst["acme"] = [n |-> 1, calls |-> 1]
    /\ Defined(states["acme"])
    /\ ~Val(states["acme"]).pendingTrailing
    /\ Val(states["acme"]).lastRequestEndAt = Undefined
    /\ \E c \in calls : c.provider = "acme" /\ c.reason = TrailingReason
    /\ Defined(Restorable(globalState)["acme"])

\* ---- C34
\* the step is a trigger, a trailing timer fire or an adapter completion of p
StepOf(p) ==
    \/ \E outcome \in Outcomes : NotifyChatRequestFinished(p, outcome)
    \/ \E reason \in SchedulerReasons : RequestRefresh(p, reason)
    \/ ForceRefresh(p)
    \/ TrailingTimerFire(p)
    \/ \E c \in CallsOf(calls, p), result \in SchedulerResults(now) : Complete(c, result)

\* state, in-flight entry, trailing timer and outstanding calls of q are kept
Untouched(q) ==
    /\ states'[q] = states[q]
    /\ refreshInFlight'[q] = refreshInFlight[q]
    /\ trailingTimers'[q] = trailingTimers[q]
    /\ CallsOf(calls', q) = CallsOf(calls, q)
    /\ configSignatures'[q] = configSignatures[q]

\* C34: a trigger, a trailing timer fire or an adapter completion for one
\* provider leaves the state, the in-flight entry, the trailing timer and
\* the outstanding adapter calls of every other provider unchanged.
C34_OthersUntouched ==
    [][\A p \in Providers :
            StepOf(p) => \A q \in Providers \ {p} : Untouched(q)]_vars

\* adapter calls of both providers are outstanding together, each under its
\* own in-flight entry, while beta also has a trailing request and its timer
C34_Witness ==
    /\ \E c \in calls, d \in calls :
            /\ c.provider = "acme" /\ refreshInFlight["acme"] = Some(c.id)
            /\ d.provider = "beta" /\ refreshInFlight["beta"] = Some(d.id)
    /\ PendingTrailing(states, "beta")
    /\ ~PendingTrailing(states, "acme")
    /\ Val(states["acme"]).isRefreshing /\ Val(states["beta"]).isRefreshing

====
